---------------------------- MODULE DeltaFeedProofs ----------------------------
(***************************************************************************)
(* Proofs about DeltaFeed, for any rows, entities, caps and page size, any *)
(* shares, overlap and lifetimes, and any number of writes and losses: its *)
(* types, and that no change is skipped.                                   *)
(***************************************************************************)
EXTENDS DeltaFeed, TLAPS, FiniteSetTheorems, WellFoundedInduction

-----------------------------------------------------------------------------
(* The order of the feed                                                   *)

(* Stamps order rows, and ids the rows of one stamp.                       *)
LEMMA AheadIs ==
  ASSUME NEW f, NEW i, NEW k
  PROVE  Ahead(f, i, k) <=> f[k] > f[i] \/ (f[k] = f[i] /\ k > i)
BY DEF Ahead, Later

(* Some of the rows, with their stamps                                     *)
Stamped(some, f) ==
  /\ some \subseteq Ids
  /\ f \in [Ids -> Time]

(* The rows of some that are ahead of one of them                          *)
Before(some, f, i) == {k \in some : Ahead(f, k, i)}
After(some, f, i)  == {k \in some : Ahead(f, i, k)}

(* Ids and stamps are numbers, and some of the ids are finitely many.      *)
LEMMA StampedTypes ==
  ASSUME NEW some, NEW f, Stamped(some, f)
  PROVE  /\ \A i \in some : i \in Nat /\ i # 0 /\ f[i] \in Nat
         /\ IsFiniteSet(some)
         /\ \A part \in SUBSET some : IsFiniteSet(part) /\ Cardinality(part) \in Nat
<1>1. MaxTime \in Nat /\ Ids \subseteq Nat \ {0} /\ IsFiniteSet(Ids)
  BY FeedAssumption
<1>2. \A i \in some : i \in Nat /\ i # 0 /\ f[i] \in Nat
  BY <1>1 DEF Stamped, Time
<1>3. \A part \in SUBSET Ids : IsFiniteSet(part)
  BY <1>1, FS_Subset
<1>4. \A part \in SUBSET some : IsFiniteSet(part)
  BY <1>3 DEF Stamped
<1>5. \A part \in SUBSET some : Cardinality(part) \in Nat
  BY <1>4, FS_CardinalityType
<1> QED BY <1>2, <1>4, <1>5

(* The order is strict and total.                                          *)
LEMMA AheadOrder ==
  ASSUME NEW some, NEW f, Stamped(some, f)
  PROVE  /\ \A i \in some : ~Ahead(f, i, i)
         /\ \A i, k \in some : i # k => Ahead(f, i, k) \/ Ahead(f, k, i)
         /\ \A i, k, l \in some : Ahead(f, i, k) /\ Ahead(f, k, l) => Ahead(f, i, l)
<1> USE StampedTypes, AheadIs
<1>1. \A i \in some : ~Ahead(f, i, i)
  OBVIOUS
<1>2. \A i, k \in some : i # k => Ahead(f, i, k) \/ Ahead(f, k, i)
  OBVIOUS
<1>3. \A i, k, l \in some : Ahead(f, i, k) /\ Ahead(f, k, l) => Ahead(f, i, l)
  OBVIOUS
<1> QED BY <1>1, <1>2, <1>3

(* Rows have a first and a last among them: the one that has the least     *)
(* before it, or after it.                                                 *)
LEMMA MinimalSet ==
  ASSUME NEW some, IsFiniteSet(some), NEW family \in SUBSET (SUBSET some), family # {}
  PROVE  \E a \in family : \A b \in family : ~(b \subseteq a /\ b # a)
<1>1. IsWellFoundedOn(StrictSubsetOrdering(some), SUBSET some)
  BY FS_StrictSubsetOrderingWellFounded, FS_FiniteSubsetsOfFinite
<1>2. PICK a \in family : \A b \in family : ~(<<b, a>> \in StrictSubsetOrdering(some))
  BY <1>1, WFMin
<1>3. ASSUME NEW b \in family, b \subseteq a, b # a
      PROVE  FALSE
  <2>1. <<b, a>> \in StrictSubsetOrdering(some)
    BY <1>3 DEF StrictSubsetOrdering
  <2> QED BY <1>2, <2>1
<1> QED BY <1>2, <1>3

(* There is a first row: none is before it.                                *)
LEMMA FirstExists ==
  ASSUME NEW some, NEW f, Stamped(some, f), some # {}
  PROVE  \E i \in some : Before(some, f, i) = {}
<1> DEFINE family == {Before(some, f, i) : i \in some}
<1>1. family \in SUBSET (SUBSET some) /\ family # {}
  BY DEF Before
<1>2. IsFiniteSet(some)
  BY StampedTypes
<1>3. PICK a \in family : \A b \in family : ~(b \subseteq a /\ b # a)
  <2> HIDE DEF family
  <2> QED BY <1>1, <1>2, MinimalSet
<1>4. PICK i \in some : a = Before(some, f, i)
  OBVIOUS
<1>5. ASSUME NEW k \in some, Ahead(f, k, i)
      PROVE  FALSE
  <2>1. Before(some, f, k) \subseteq Before(some, f, i)
    BY <1>5, AheadOrder DEF Before
  <2>2. k \in Before(some, f, i) /\ k \notin Before(some, f, k)
    BY <1>5, AheadOrder DEF Before
  <2> QED BY <1>3, <1>4, <2>1, <2>2
<1> QED BY <1>5 DEF Before

(* There is a last row: none is after it.                                  *)
LEMMA LastExists ==
  ASSUME NEW some, NEW f, Stamped(some, f), some # {}
  PROVE  \E i \in some : \A k \in some : ~Ahead(f, i, k)
<1> DEFINE family == {After(some, f, i) : i \in some}
<1>1. family \in SUBSET (SUBSET some) /\ family # {}
  BY DEF After
<1>2. IsFiniteSet(some)
  BY StampedTypes
<1>3. PICK a \in family : \A b \in family : ~(b \subseteq a /\ b # a)
  <2> HIDE DEF family
  <2> QED BY <1>1, <1>2, MinimalSet
<1>4. PICK i \in some : a = After(some, f, i)
  OBVIOUS
<1>5. ASSUME NEW k \in some, Ahead(f, i, k)
      PROVE  FALSE
  <2>1. After(some, f, k) \subseteq After(some, f, i)
    BY <1>5, AheadOrder DEF After
  <2>2. k \in After(some, f, i) /\ k \notin After(some, f, k)
    BY <1>5, AheadOrder DEF After
  <2> QED BY <1>3, <1>4, <2>1, <2>2
<1> QED BY <1>5

(* What is ahead of a row has less before it.                              *)
LEMMA RankGrows ==
  ASSUME NEW some, NEW f, Stamped(some, f), NEW i \in some, NEW k \in some, Ahead(f, i, k)
  PROVE  Cardinality(Before(some, f, i)) < Cardinality(Before(some, f, k))
<1>1. Before(some, f, i) \subseteq Before(some, f, k)
  BY AheadOrder DEF Before
<1>2. i \in Before(some, f, k) /\ i \notin Before(some, f, i)
  BY AheadOrder DEF Before
<1>3. Before(some, f, i) \in SUBSET some /\ Before(some, f, k) \in SUBSET some
  BY DEF Before
<1>4. /\ IsFiniteSet(Before(some, f, k))
      /\ Cardinality(Before(some, f, i)) \in Nat /\ Cardinality(Before(some, f, k)) \in Nat
  BY <1>3, StampedTypes
<1>5. /\ Cardinality(Before(some, f, i)) <= Cardinality(Before(some, f, k))
      /\ Cardinality(Before(some, f, i)) # Cardinality(Before(some, f, k))
  BY <1>1, <1>2, <1>4, FS_Subset
<1> QED BY <1>4, <1>5

(* A page takes no more than fits, something if there is something and     *)
(* room, and nothing before what it leaves.                                *)
LEMMA FirstFits ==
  ASSUME NEW n \in Nat, NEW some, NEW f, Stamped(some, f)
  PROVE  /\ First(n, some, f) \subseteq some
         /\ Cardinality(First(n, some, f)) \in 0..n
<1> DEFINE got  == First(n, some, f)
           rank == [i \in got |-> Cardinality(Before(some, f, i))]
<1>1. got \subseteq some
  BY DEF First
<1>2. IsFiniteSet(got) /\ Cardinality(got) \in Nat
  BY <1>1, StampedTypes
<1>3. IsFiniteSet(0..(n - 1)) /\ Cardinality(0..(n - 1)) = n
  BY FS_Interval
<1>4. rank \in Injection(got, 0..(n - 1))
  <2>1. ASSUME NEW i \in got
        PROVE  rank[i] \in 0..(n - 1)
    <3>1. i \in some /\ Cardinality(Before(some, f, i)) < n
      BY DEF First, Before
    <3>2. Cardinality(Before(some, f, i)) \in Nat
      <4>1. Before(some, f, i) \in SUBSET some
        BY DEF Before
      <4> QED BY <4>1, StampedTypes
    <3>3. rank[i] = Cardinality(Before(some, f, i))
      OBVIOUS
    <3> QED BY <3>1, <3>2, <3>3
  <2>2. ASSUME NEW i \in got, NEW k \in got, i # k
        PROVE  rank[i] # rank[k]
    <3>1. i \in some /\ k \in some
      BY <1>1
    <3>2. rank[i] < rank[k] \/ rank[k] < rank[i]
      BY <2>2, <3>1, AheadOrder, RankGrows
    <3>3. rank[i] \in Nat /\ rank[k] \in Nat
      BY <2>1
    <3> QED BY <3>2, <3>3
  <2>3. rank \in [got -> 0..(n - 1)]
    BY <2>1
  <2>4. \A i, k \in got : rank[i] = rank[k] => i = k
    BY <2>2
  <2> QED BY <2>3, <2>4, Zenon DEF Injection, IsInjective
<1>5. Cardinality(got) <= n
  <2> HIDE DEF rank, got
  <2> QED BY <1>3, <1>4, FS_Injection
<1> QED BY <1>1, <1>2, <1>5

(* A budget takes at least one row, if there is any,                       *)
LEMMA FirstTakes ==
  ASSUME NEW n \in Nat \ {0}, NEW some, NEW f, Stamped(some, f), some # {}
  PROVE  First(n, some, f) # {}
<1>1. PICK i \in some : Before(some, f, i) = {}
  BY FirstExists
<1>2. Cardinality(Before(some, f, i)) = 0
  BY <1>1, FS_EmptySet
<1>3. i \in First(n, some, f)
  BY <1>2 DEF First, Before
<1> QED BY <1>3

(* and leaves what comes after all that it takes.                          *)
LEMMA FirstLeaves ==
  ASSUME NEW n \in Nat, NEW some, NEW f, Stamped(some, f),
         NEW i \in First(n, some, f), NEW k \in some \ First(n, some, f)
  PROVE  Ahead(f, i, k)
<1>1. i \in some /\ k \in some /\ i # k /\ Cardinality(Before(some, f, i)) < n
  BY DEF First, Before
<1>2. ~(Cardinality(Before(some, f, k)) < n)
  BY DEF First, Before
<1>3. Before(some, f, i) \in SUBSET some /\ Before(some, f, k) \in SUBSET some
  BY DEF Before
<1>4. Cardinality(Before(some, f, i)) \in Nat /\ Cardinality(Before(some, f, k)) \in Nat
  BY <1>3, StampedTypes
<1>5. ~Ahead(f, k, i)
  BY <1>1, <1>2, <1>4, RankGrows
<1> QED BY <1>1, <1>5, AheadOrder

(* A page goes on at its last row, after which nothing of it comes.        *)
LEMMA KeyIsLast ==
  ASSUME NEW got, NEW f, Stamped(got, f), NEW key, got # {}
  PROVE  \E last \in got : /\ KeyAfter(got, f, key) = <<f[last], last>>
                           /\ \A k \in got : ~Ahead(f, last, k)
<1> DEFINE last == CHOOSE i \in got : \A k \in got : ~Ahead(f, i, k)
<1>1. last \in got /\ \A k \in got : ~Ahead(f, last, k)
  BY LastExists
<1>2. KeyAfter(got, f, key) = <<f[last], last>>
  BY DEF KeyAfter
<1> QED BY <1>1, <1>2

(* What a page leaves of the rows it wanted it wants again from where it   *)
(* goes on.                                                                *)
LEMMA LeftIsWanted ==
  ASSUME NEW n \in Nat, NEW some, NEW f, Stamped(some, f), NEW key,
         \A i \in some : Wanted(f[i], i, key),
         NEW i \in some \ First(n, some, f)
  PROVE  Wanted(f[i], i, KeyAfter(First(n, some, f), f, key))
<1> DEFINE got == First(n, some, f)
<1>1. CASE got = {}
  BY <1>1 DEF KeyAfter
<1>2. CASE got # {}
  <2>1. Stamped(got, f)
    BY FirstFits DEF Stamped
  <2>2. PICK last \in got : KeyAfter(got, f, key) = <<f[last], last>>
    <3> HIDE DEF got
    <3> QED BY <1>2, <2>1, KeyIsLast
  <2>3. Ahead(f, last, i)
    BY FirstLeaves
  <2>4. last # 0
    BY <2>1, StampedTypes
  <2>5. <<f[last], last>> # NoKey
    BY <2>4 DEF NoKey
  <2> HIDE DEF got
  <2> QED BY <2>2, <2>3, <2>5 DEF Wanted, Ahead, got
<1> QED BY <1>1, <1>2

(* The positions in the order of the feed                                  *)
Positions == Time \X (Ids \union {0})

(* A key is a place in the feed; it is the one before if nothing was       *)
(* taken, and no key at all never if something was.                        *)
LEMMA KeyTypes ==
  ASSUME NEW got, NEW f, Stamped(got, f), NEW key \in Positions
  PROVE  /\ KeyAfter(got, f, key) \in Positions
         /\ got = {} => KeyAfter(got, f, key) = key
         /\ got # {} => KeyAfter(got, f, key) # NoKey
<1>1. CASE got = {}
  BY <1>1 DEF KeyAfter
<1>2. CASE got # {}
  <2>1. PICK last \in got : KeyAfter(got, f, key) = <<f[last], last>>
    BY <1>2, KeyIsLast
  <2>2. last # 0 /\ last \in Ids /\ f[last] \in Time
    BY StampedTypes DEF Stamped
  <2> QED BY <1>2, <2>1, <2>2 DEF NoKey, Positions
<1> QED BY <1>1, <1>2
-----------------------------------------------------------------------------
(* The invariant                                                           *)

(* Time: stamps are not of the future, a transaction is not older than it  *)
(* may become, and a pull's watermark lies an overlap before its beginning.*)
InPull == page.at # 0 \/ cursor.keys # NoKeys

TimeOK ==
  /\ Overlap + 2 <= now
  /\ \A i \in Ids : /\ 0 < row[i].stamp
                    /\ tx[i] # NoTx => /\ tx[i].op # "none" /\ 0 < tx[i].stamp
                                       /\ tx[i].stamp <= now /\ now <= tx[i].stamp + TxLife
                    /\ tomb[i] <= now
  /\ cursor.ts + Overlap <= now
  /\ began <= now
  /\ InPull => Overlap + 2 <= began /\ cursor.ts + Overlap <= began
  /\ page.at # 0 => began <= page.time /\ page.time <= now

(* What rides with a place is seen only while the place is; what was       *)
(* withheld is in view.                                                    *)
ShareOK ==
  /\ \A i \in Ids : row[i].live /\ Rides(i) => row[Of[i]].live
  /\ \A i \in withheld : row[i].live

(* A page holds rows of the entities it has been through, and tombstones   *)
(* at the end, of rows it does not hold; one that is not the last says     *)
(* where some entity goes on.                                              *)
PageOK ==
  /\ page.at = 0 => page = NoPage
  /\ page.at <= TombKind => page.drops = {}
  /\ \A i \in Ids : page.rows[i] # "none" => KindOf[i] < page.at /\ i \notin page.drops
  /\ page.at # 0 /\ (page.more \/ page.left < Limit) =>
       \E k \in 1..TombKind : k < page.at /\ page.next[k] # NoKey

(* What is fresh is live.                                                  *)
FreshOK ==
  \A i \in Ids : mirror[i] = "fresh" \/ page.rows[i] = "fresh" => row[i].live

(* A row's last change was no longer than a transaction before some time.  *)
(* A tombstone that was swept was from before the horizon.                 *)
Since(i, time) ==
  IF row[i].live THEN row[i].stamp + TxLife >= time
  ELSE IF tomb[i] # 0 THEN tomb[i] + TxLife >= time ELSE now + TxLife > time + TTL

(* What came into or out of view since the page was begun has changed      *)
(* since, and so has what the page holds and is no longer so.              *)
ViewOK ==
  page.at # 0 => \A i \in Ids \ withheld :
    /\ i \in Shared /\ (row[i].live <=> i \notin page.visible) => Since(i, page.time)
    /\ page.rows[i] = "stale" => Since(i, page.time)

(* A pull from the beginning finds an empty mirror, and what it brings can *)
(* only have changed since it began.                                       *)
FirstOK ==
  cursor.ts = 0 =>
    /\ cursor.keys = NoKeys => \A i \in Ids : mirror[i] = "absent"
    /\ \A i \in Ids \ withheld : mirror[i] = "stale" => Since(i, began)

(* Where a change stands in the order of the feed                          *)
KindNow(i)  == IF row[i].live THEN KindOf[i] ELSE TombKind
StampNow(i) == IF row[i].live THEN row[i].stamp ELSE tomb[i]

(* The feed has it, and goes on before it; or its tombstone was swept, and *)
(* the pull begins anew.                                                   *)
Coming(i, keys) ==
  (row[i].live \/ tomb[i] # 0) /\ Wanted(StampNow(i), i, keys[KindNow(i)])
Forgotten(i) == ~row[i].live /\ tomb[i] = 0 /\ pastTombstoneHorizon

(* What the phone lacks lies after the watermark, and the pull under way   *)
(* will come to it, or it has changed since the pull began.                *)
Lacks(i) == i \notin buried \union withheld /\ Differs(i)

AfterWatermark(i) ==
  \/ row[i].live /\ row[i].stamp > cursor.ts
  \/ ~row[i].live /\ tomb[i] > cursor.ts
  \/ ~row[i].live /\ tomb[i] = 0 /\ (pastTombstoneHorizon \/ cursor.ts = 0)

Owed(i) == Since(i, began) \/ Forgotten(i) \/ Coming(i, cursor.keys)

CursorOwes == ~slow => \A i \in Ids : Lacks(i) => AfterWatermark(i) /\ Owed(i)

(* What the page under way has not brought of it is yet to come, in this   *)
(* page or in the next.                                                    *)
PageCovers(i) ==
  \/ Since(i, began)
  \/ Forgotten(i)
  \/ KindNow(i) >= page.at
  \/ page.rows[i] = "fresh"
  \/ i \in page.drops /\ ~row[i].live
  \/ page.more /\ Coming(i, page.next)

PageOwes == ~slow /\ page.at # 0 => \A i \in Ids : Lacks(i) => PageCovers(i)

FeedInv ==
  /\ TypeOK /\ TimeOK /\ ShareOK /\ PageOK /\ FreshOK /\ ViewOK /\ FirstOK
  /\ CursorOwes /\ PageOwes

-----------------------------------------------------------------------------
(* What the steps do                                                       *)

(* The types of the page and of the cursor, field by field                 *)
LEMMA FieldTypes ==
  ASSUME TypeOK
  PROVE  /\ page.at \in 0..TombKind + 1 /\ page.time \in Time /\ page.visible \in SUBSET Shared
         /\ page.left \in 0..Limit /\ page.more \in BOOLEAN /\ page.next \in Keys
         /\ page.rows \in [Ids -> Copies] /\ page.drops \in SUBSET Ids
         /\ cursor.ts \in Time /\ cursor.keys \in Keys
         /\ Stamps \in [Ids -> Time] /\ tomb \in [Ids -> Time]
         /\ cursor = [ts |-> cursor.ts, keys |-> cursor.keys]
<1>1. page \in [at : 0..TombKind + 1, time : Time, visible : SUBSET Shared, left : 0..Limit,
                more : BOOLEAN, next : Keys, rows : [Ids -> Copies], drops : SUBSET Ids]
  BY DEF TypeOK
<1>2. cursor \in [ts : Time, keys : Keys]
  BY DEF TypeOK
<1>3. Stamps \in [Ids -> Time] /\ tomb \in [Ids -> Time]
  BY DEF TypeOK, Stamps
<1> QED BY <1>1, <1>2, <1>3

(* The bounds, as numbers                                                  *)
LEMMA Numbers ==
  /\ Ids \subseteq Nat \ {0} /\ IsFiniteSet(Ids)
  /\ Kinds \in Nat /\ Kinds > 0 /\ TombKind = Kinds + 1
  /\ Limit \in Nat /\ Limit > 0
  /\ TxLife \in Nat /\ Overlap \in Nat /\ TTL \in Nat /\ TxLife < Overlap /\ Overlap < TTL
  /\ MaxTime \in Nat /\ Overlap + 2 <= MaxTime
  /\ \A i \in Ids : KindOf[i] \in 1..Kinds
  /\ \A k \in 1..Kinds : Cap[k] \in Nat \ {0}
<1>1. /\ Ids \subseteq Nat \ {0} /\ IsFiniteSet(Ids)
      /\ Kinds \in Nat /\ Kinds > 0 /\ TombKind = Kinds + 1
      /\ Limit \in Nat /\ Limit > 0
      /\ TxLife \in Nat /\ Overlap \in Nat /\ TTL \in Nat /\ TxLife < Overlap /\ Overlap < TTL
      /\ MaxTime \in Nat /\ Overlap + 2 <= MaxTime
  BY FeedAssumption DEF TombKind
<1>2. \A i \in Ids : KindOf[i] \in 1..Kinds
  BY FeedAssumption
<1>3. \A k \in 1..Kinds : Cap[k] \in Nat \ {0}
  BY FeedAssumption
<1> QED BY <1>1, <1>2, <1>3

(* What the server's queries of one entity yield                           *)
Budget == IF page.left < Cap[page.at] THEN page.left ELSE Cap[page.at]
Spent  == page.more \/ Budget = 0
Got    == IF Spent THEN {} ELSE First(Budget, Changed(page.at), Stamps)

(* The page takes of what has changed, within its budget, and its key lies *)
(* before what it leaves; it takes nothing only if there is nothing, or    *)
(* the budget is spent.                                                    *)
LEMMA GotSome ==
  ASSUME TypeOK, page.at \in 1..Kinds
  PROVE  /\ Got \subseteq Changed(page.at) /\ Cardinality(Got) \in 0..page.left
         /\ Got # {} => Cardinality(Got) > 0
         /\ ~Spent /\ Got = {} => Changed(page.at) = {}
         /\ Spent => Got = {}
         /\ page.more => Spent
         /\ Spent /\ ~page.more => page.left = 0
         /\ KeyAfter(Got, Stamps, cursor.keys[page.at]) \in Positions
         /\ Got # {} => KeyAfter(Got, Stamps, cursor.keys[page.at]) # NoKey
         /\ Got = {} => KeyAfter(Got, Stamps, cursor.keys[page.at]) = cursor.keys[page.at]
         /\ ~Spent => \A i \in Changed(page.at) \ Got :
              Wanted(row[i].stamp, i, KeyAfter(Got, Stamps, cursor.keys[page.at]))
<1> DEFINE k == page.at
           key == cursor.keys[k]
<1>1. Stamped(Changed(k), Stamps)
  BY FieldTypes DEF Stamped, Changed
<1>2. Budget \in Nat /\ Budget <= page.left /\ page.left \in Nat
  BY FieldTypes, Numbers DEF Budget
<1>3. Got \subseteq Changed(k) /\ Cardinality(Got) \in 0..Budget
  <2>1. CASE Spent
    BY <1>2, <2>1, FS_EmptySet DEF Got
  <2>2. CASE ~Spent
    BY <1>1, <1>2, <2>2, FirstFits DEF Got
  <2> QED BY <2>1, <2>2
<1>4. Stamped(Got, Stamps)
  BY <1>1, <1>3 DEF Stamped
<1>5. key \in Positions
  BY FieldTypes, Numbers DEF Keys, Positions
<1>6. Got # {} => Cardinality(Got) > 0
  BY <1>3, <1>4, StampedTypes, FS_EmptySet
<1>7. ~Spent /\ Got = {} => Changed(k) = {}
  BY <1>1, <1>2, FirstTakes DEF Got, Spent
<1>8. ASSUME ~Spent, NEW i \in Changed(k) \ Got
      PROVE  Wanted(row[i].stamp, i, KeyAfter(Got, Stamps, key))
  <2>1. Got = First(Budget, Changed(k), Stamps)
    BY <1>8 DEF Got
  <2>2. \A j \in Changed(k) : j \in Ids /\ Wanted(Stamps[j], j, key) /\ Stamps[j] = row[j].stamp
    BY DEF Changed, Stamps
  <2>3. Wanted(Stamps[i], i, KeyAfter(Got, Stamps, key))
    <3> HIDE DEF k, key
    <3> QED BY <1>1, <1>2, <2>1, <2>2, LeftIsWanted
  <2> QED BY <2>2, <2>3
<1>9. /\ KeyAfter(Got, Stamps, key) \in Positions
      /\ Got # {} => KeyAfter(Got, Stamps, key) # NoKey
      /\ Got = {} => KeyAfter(Got, Stamps, key) = key
  BY <1>4, <1>5, KeyTypes
<1>10. (Spent => Got = {}) /\ (page.more => Spent) /\ (Spent /\ ~page.more => page.left = 0)
  BY <1>2, FieldTypes, Numbers DEF Spent, Got, Budget
<1> QED BY <1>2, <1>3, <1>6, <1>7, <1>8, <1>9, <1>10

(* and of the tombstones                                                   *)
Buried    == {i \in Ids : tomb[i] # 0 /\ Wanted(tomb[i], i, cursor.keys[TombKind])}
TombSpent == page.more \/ page.left = 0
TombGot   == IF TombSpent THEN {} ELSE First(page.left, Buried, tomb)

(* So of the tombstones                                                    *)
LEMMA TombGotSome ==
  ASSUME TypeOK
  PROVE  /\ TombGot \subseteq Buried
         /\ ~TombSpent /\ TombGot = {} => Buried = {}
         /\ TombSpent => TombGot = {}
         /\ KeyAfter(TombGot, tomb, cursor.keys[TombKind]) \in Positions
         /\ TombGot # {} => KeyAfter(TombGot, tomb, cursor.keys[TombKind]) # NoKey
         /\ TombGot = {} => KeyAfter(TombGot, tomb, cursor.keys[TombKind]) = cursor.keys[TombKind]
         /\ ~TombSpent => \A i \in Buried \ TombGot :
              Wanted(tomb[i], i, KeyAfter(TombGot, tomb, cursor.keys[TombKind]))
<1> DEFINE key == cursor.keys[TombKind]
<1>1. Stamped(Buried, tomb)
  BY FieldTypes DEF Stamped, Buried
<1>2. page.left \in Nat
  BY FieldTypes, Numbers
<1>3. TombGot \subseteq Buried
  BY <1>1, <1>2, FirstFits DEF TombGot
<1>4. Stamped(TombGot, tomb)
  BY <1>1, <1>3 DEF Stamped
<1>5. key \in Positions
  BY FieldTypes, Numbers DEF Keys, Positions
<1>6. ~TombSpent /\ TombGot = {} => Buried = {}
  BY <1>1, <1>2, FirstTakes DEF TombGot, TombSpent
<1>7. ASSUME ~TombSpent, NEW i \in Buried \ TombGot
      PROVE  Wanted(tomb[i], i, KeyAfter(TombGot, tomb, key))
  <2>1. TombGot = First(page.left, Buried, tomb)
    BY <1>7 DEF TombGot
  <2>2. \A j \in Buried : Wanted(tomb[j], j, key)
    BY DEF Buried
  <2> HIDE DEF key
  <2> QED BY <1>1, <1>2, <2>1, <2>2, LeftIsWanted
<1>8. /\ KeyAfter(TombGot, tomb, key) \in Positions
      /\ TombGot # {} => KeyAfter(TombGot, tomb, key) # NoKey
      /\ TombGot = {} => KeyAfter(TombGot, tomb, key) = key
  BY <1>4, <1>5, KeyTypes
<1>9. TombSpent => TombGot = {}
  BY DEF TombGot
<1> QED BY <1>3, <1>6, <1>7, <1>8, <1>9

(* What a page step leaves alone                                           *)
PageAlone == UNCHANGED <<now, row, tx, tomb, cursor, mirror, writes, slow, buried, withheld>>

(* The page's own steps                                                    *)
LEMMA AskIs ==
  ASSUME Ask
  PROVE  /\ page.at = 0 /\ ~pastTombstoneHorizon
         /\ page'.at = 1 /\ page'.time = now /\ page'.left = Limit /\ page'.more = FALSE
         /\ page'.visible = {i \in Shared : row[i].live}
         /\ page'.next = NoKeys /\ page'.rows = [i \in Ids |-> "none"] /\ page'.drops = {}
         /\ page' = [at |-> page'.at, time |-> page'.time, visible |-> page'.visible,
                     left |-> page'.left, more |-> page'.more, next |-> page'.next,
                     rows |-> page'.rows, drops |-> page'.drops]
         /\ began' = IF cursor.keys = NoKeys THEN now ELSE began
         /\ PageAlone /\ losses' = losses
<1>1. page' = [at |-> 1, time |-> now, visible |-> {i \in Shared : row[i].live}, left |-> Limit,
               more |-> FALSE, next |-> NoKeys, rows |-> [i \in Ids |-> "none"], drops |-> {}]
  BY DEF Ask, NoPage
<1>2. /\ page.at = 0 /\ ~pastTombstoneHorizon
      /\ began' = IF cursor.keys = NoKeys THEN now ELSE began
      /\ PageAlone /\ losses' = losses
  BY Zenon DEF Ask, PageAlone, server, phone
<1> QED BY <1>1, <1>2

(* Fill field by field                                                     *)
LEMMA FillIs ==
  ASSUME TypeOK, Fill
  PROVE  /\ page.at \in 1..Kinds /\ page'.at = page.at + 1
         /\ page'.left = page.left - Cardinality(Got)
         /\ page'.more = (Spent \/ Got # Changed(page.at))
         /\ page'.next = [page.next EXCEPT ![page.at] =
                            KeyAfter(Got, Stamps, cursor.keys[page.at])]
         /\ page'.rows = [i \in Ids |-> IF i \notin Got THEN page.rows[i]
                                        ELSE IF row[i].live THEN "fresh" ELSE "stale"]
         /\ page'.time = page.time /\ page'.visible = page.visible /\ page'.drops = page.drops
         /\ page' = [at |-> page'.at, time |-> page'.time, visible |-> page'.visible,
                     left |-> page'.left, more |-> page'.more, next |-> page'.next,
                     rows |-> page'.rows, drops |-> page'.drops]
         /\ PageAlone /\ UNCHANGED <<began, losses>>
<1> DEFINE more == Spent \/ Got # Changed(page.at)
           next == [page.next EXCEPT ![page.at] = KeyAfter(Got, Stamps, cursor.keys[page.at])]
           rows == [i \in Ids |-> IF i \notin Got THEN page.rows[i]
                                  ELSE IF row[i].live THEN "fresh" ELSE "stale"]
           left == page.left - Cardinality(Got)
<1>1. page.at \in 1..Kinds /\ PageAlone /\ UNCHANGED <<began, losses>>
  BY Zenon DEF Fill, PageAlone, server, phone, ghost
<1>2. page' = [page EXCEPT !.at = page.at + 1, !.left = left, !.more = more, !.next = next,
                           !.rows = rows]
  BY Zenon DEF Fill, Got, Spent, Budget
<1>3. page \in [at : 0..TombKind + 1, time : Time, visible : SUBSET Shared, left : 0..Limit,
                more : BOOLEAN, next : Keys, rows : [Ids -> Copies], drops : SUBSET Ids]
  BY DEF TypeOK
<1> HIDE DEF more, next, rows, left
<1>4. page' = [at |-> page.at + 1, time |-> page.time, visible |-> page.visible, left |-> left,
               more |-> more, next |-> next, rows |-> rows, drops |-> page.drops]
  BY <1>2, <1>3
<1> QED BY <1>1, <1>4 DEF more, next, rows, left

(* Tombstones field by field                                               *)
LEMMA TombstonesIs ==
  ASSUME TypeOK, Tombstones
  PROVE  /\ page.at = TombKind /\ page'.at = TombKind + 1
         /\ page'.more = (TombSpent \/ TombGot # Buried)
         /\ page'.next = [page.next EXCEPT ![TombKind] =
                            KeyAfter(TombGot, tomb, cursor.keys[TombKind])]
         /\ page'.drops = {i \in TombGot : page.rows[i] = "none"}
         /\ page'.time = page.time /\ page'.visible = page.visible
         /\ page'.left = page.left /\ page'.rows = page.rows
         /\ page' = [at |-> page'.at, time |-> page'.time, visible |-> page'.visible,
                     left |-> page'.left, more |-> page'.more, next |-> page'.next,
                     rows |-> page'.rows, drops |-> page'.drops]
         /\ PageAlone /\ UNCHANGED <<began, losses>>
<1> DEFINE more  == TombSpent \/ TombGot # Buried
           next  == [page.next EXCEPT ![TombKind] =
                       KeyAfter(TombGot, tomb, cursor.keys[TombKind])]
           drops == {i \in TombGot : page.rows[i] = "none"}
<1>1. page.at = TombKind /\ PageAlone /\ UNCHANGED <<began, losses>>
  BY Zenon DEF Tombstones, PageAlone, server, phone, ghost
<1>2. page' = [page EXCEPT !.at = TombKind + 1, !.more = more, !.next = next, !.drops = drops]
  BY Zenon DEF Tombstones, TombGot, TombSpent, Buried
<1>3. page \in [at : 0..TombKind + 1, time : Time, visible : SUBSET Shared, left : 0..Limit,
                more : BOOLEAN, next : Keys, rows : [Ids -> Copies], drops : SUBSET Ids]
  BY DEF TypeOK
<1> HIDE DEF more, next, drops
<1>4. page' = [at |-> TombKind + 1, time |-> page.time, visible |-> page.visible,
               left |-> page.left, more |-> more, next |-> next, rows |-> page.rows,
               drops |-> drops]
  BY <1>2, <1>3
<1> QED BY <1>1, <1>4 DEF more, next, drops

(* Apply field by field                                                    *)
LEMMA ApplyIs ==
  ASSUME TypeOK, Apply
  PROVE  /\ page.at = TombKind + 1 /\ page' = NoPage
         /\ mirror' = [i \in Ids |-> IF i \in page.drops THEN "absent"
                                     ELSE IF page.rows[i] # "none" THEN page.rows[i]
                                     ELSE mirror[i]]
         /\ page.more => cursor'.ts = cursor.ts /\ cursor'.keys = page.next
         /\ ~page.more => cursor'.ts = page.time - Overlap /\ cursor'.keys = NoKeys
         /\ cursor' = [ts |-> cursor'.ts, keys |-> cursor'.keys]
         /\ slow' = (slow \/ pastTombstoneHorizon
                       \/ (~page.more /\ page.time - began >= Overlap - TxLife))
         /\ buried' = (buried \ {i \in Ids : page.rows[i] # "none"})
                        \union {i \in page.drops : mirror[i] = "fresh"}
         /\ began' = IF page.more THEN began ELSE 0
         /\ UNCHANGED <<now, row, tx, tomb, writes, losses, withheld>>
<1>1. /\ page.more => cursor'.ts = cursor.ts /\ cursor'.keys = page.next
      /\ ~page.more => cursor'.ts = page.time - Overlap /\ cursor'.keys = NoKeys
      /\ cursor' = [ts |-> cursor'.ts, keys |-> cursor'.keys]
  BY DEF Apply, NextCursor
<1> QED BY <1>1, Zenon DEF Apply, server

(* What a commit changes of a copy                                         *)
LEMMA OutdateIs ==
  ASSUME TypeOK, NEW some, Outdate(some)
  PROVE  /\ mirror' = [i \in Ids |-> IF i \in some THEN Older(mirror[i]) ELSE mirror[i]]
         /\ page'.rows = [i \in Ids |-> IF i \in some THEN Older(page.rows[i])
                                        ELSE page.rows[i]]
         /\ page'.at = page.at /\ page'.time = page.time /\ page'.visible = page.visible
         /\ page'.left = page.left /\ page'.more = page.more /\ page'.next = page.next
         /\ page'.drops = page.drops
         /\ page' = [at |-> page'.at, time |-> page'.time, visible |-> page'.visible,
                     left |-> page'.left, more |-> page'.more, next |-> page'.next,
                     rows |-> page'.rows, drops |-> page'.drops]
<1> DEFINE rows == [i \in Ids |-> IF i \in some THEN Older(page.rows[i]) ELSE page.rows[i]]
<1>1. page' = [page EXCEPT !.rows = rows]
  BY Zenon DEF Outdate
<1>2. page \in [at : 0..TombKind + 1, time : Time, visible : SUBSET Shared, left : 0..Limit,
                more : BOOLEAN, next : Keys, rows : [Ids -> Copies], drops : SUBSET Ids]
  BY DEF TypeOK
<1>3. mirror' = [i \in Ids |-> IF i \in some THEN Older(mirror[i]) ELSE mirror[i]]
  BY Zenon DEF Outdate
<1> HIDE DEF rows
<1>4. page' = [at |-> page.at, time |-> page.time, visible |-> page.visible,
               left |-> page.left, more |-> page.more, next |-> page.next, rows |-> rows,
               drops |-> page.drops]
  BY <1>1, <1>2
<1> QED BY <1>3, <1>4 DEF rows

-----------------------------------------------------------------------------
(* Types                                                                   *)

(* The account's part of the types                                         *)
ServerType ==
  /\ row \in [Ids -> [live : BOOLEAN, stamp : Time]]
  /\ tx \in [Ids -> [op : {"none", "put", "drop"}, stamp : Time]]
  /\ tomb \in [Ids -> Time]

PageType ==
  page \in [at : 0..TombKind + 1, time : Time, visible : SUBSET Shared, left : 0..Limit,
            more : BOOLEAN, next : Keys, rows : [Ids -> Copies], drops : SUBSET Ids]

PhoneType ==
  /\ cursor \in [ts : Time, keys : Keys]
  /\ mirror \in [Ids -> {"absent", "stale", "fresh"}]

RestType ==
  /\ now \in Time
  /\ writes \in 0..MaxWrites /\ losses \in 0..MaxLosses
  /\ began \in Time /\ slow \in BOOLEAN
  /\ buried \subseteq Ids /\ withheld \subseteq Ids

(* The types by the groups of variables that steps leave alone             *)
LEMMA Types == TypeOK <=> ServerType /\ PageType /\ PhoneType /\ RestType
BY DEF TypeOK, ServerType, PageType, PhoneType, RestType

(* and the same of the next state                                          *)
LEMMA TypesNext == ServerType' /\ PageType' /\ PhoneType' /\ RestType' => TypeOK'
BY DEF TypeOK, ServerType, PageType, PhoneType, RestType

(* The initial values have their types.                                    *)
LEMMA EmptyTypes ==
  /\ NoKey \in Positions /\ NoKeys \in Keys
  /\ 0 \in Time
  /\ NoPage \in [at : 0..TombKind + 1, time : Time, visible : SUBSET Shared, left : 0..Limit,
                 more : BOOLEAN, next : Keys, rows : [Ids -> Copies], drops : SUBSET Ids]
  /\ Start \in [ts : Time, keys : Keys]
<1>1. 0 \in Time
  BY Numbers DEF Time
<1>2. NoKey \in Positions
  BY <1>1 DEF NoKey, Positions
<1>3. NoKeys \in Keys
  BY <1>2 DEF NoKeys, Keys, Positions
<1>4. 0 \in 0..Limit /\ 0 \in 0..TombKind + 1
  BY Numbers
<1> HIDE DEF NoKeys, Keys, Time
<1>5. NoPage \in [at : 0..TombKind + 1, time : Time, visible : SUBSET Shared, left : 0..Limit,
                  more : BOOLEAN, next : Keys, rows : [Ids -> Copies], drops : SUBSET Ids]
  BY <1>1, <1>3, <1>4 DEF NoPage, Copies
<1>6. Start \in [ts : Time, keys : Keys]
  BY <1>1, <1>3 DEF Start
<1> QED BY <1>1, <1>2, <1>3, <1>5, <1>6

(* The initial state has its types.                                        *)
LEMMA InitTypes == Init => TypeOK
<1> SUFFICES ASSUME Init PROVE TypeOK
  OBVIOUS
<1>1. Overlap + 2 \in Time /\ 0 \in Time /\ 1 \in Time
  BY Numbers DEF Time
<1>2. ServerType
  BY <1>1 DEF Init, ServerType, NoTx
<1>3. PageType
  BY EmptyTypes DEF Init, PageType
<1>4. PhoneType
  BY EmptyTypes DEF Init, PhoneType
<1>5. 0 \in 0..MaxWrites /\ 0 \in 0..MaxLosses
  BY FeedAssumption
<1>6. RestType
  BY <1>1, <1>5 DEF Init, RestType
<1> QED BY <1>2, <1>3, <1>4, <1>6, Types

(* A place rides with none, and what rides with one is of the account's.   *)
LEMMA Sharing ==
  /\ Shared \subseteq Ids /\ Places \subseteq Shared
  /\ \A i \in Ids : Rides(i) => Of[i] \in Places /\ i \notin Places
  /\ \A p \in Ids : Riders(p) \subseteq Ids
  /\ \A p \in Places : \A k \in Riders(p) : Rides(k) /\ Of[k] = p
<1> USE FeedAssumption DEF Shared, Places, Rides, Riders
<1>1. Shared \subseteq Ids /\ Places \subseteq Shared
  OBVIOUS
<1>2. \A i \in Ids : Rides(i) => Of[i] \in Places /\ i \notin Places
  OBVIOUS
<1>3. \A p \in Ids : Riders(p) \subseteq Ids
  OBVIOUS
<1>4. \A p \in Places : \A k \in Riders(p) : Rides(k) /\ Of[k] = p
  OBVIOUS
<1> QED BY <1>1, <1>2, <1>3, <1>4

(* The phone's part of a commit                                            *)
LEMMA OutdateTypes ==
  ASSUME TypeOK, NEW some, Outdate(some)
  PROVE  PageType' /\ mirror' \in [Ids -> {"absent", "stale", "fresh"}]
<1>1. mirror \in [Ids -> {"absent", "stale", "fresh"}] /\ page.rows \in [Ids -> Copies]
  BY FieldTypes DEF TypeOK
<1>2. mirror' \in [Ids -> {"absent", "stale", "fresh"}]
  <2>1. mirror' = [i \in Ids |-> IF i \in some THEN Older(mirror[i]) ELSE mirror[i]]
    BY OutdateIs, Zenon
  <2> QED BY <1>1, <2>1 DEF Older
<1>3. page'.rows \in [Ids -> Copies]
  <2>1. page'.rows = [i \in Ids |-> IF i \in some THEN Older(page.rows[i]) ELSE page.rows[i]]
    BY OutdateIs, Zenon
  <2> QED BY <1>1, <2>1 DEF Older, Copies
<1>4. PageType'
  <2>1. /\ page' = [at |-> page'.at, time |-> page'.time, visible |-> page'.visible,
                    left |-> page'.left, more |-> page'.more, next |-> page'.next,
                    rows |-> page'.rows, drops |-> page'.drops]
        /\ page'.at = page.at /\ page'.time = page.time /\ page'.visible = page.visible
        /\ page'.left = page.left /\ page'.more = page.more /\ page'.next = page.next
        /\ page'.drops = page.drops
    BY OutdateIs, Zenon
  <2> QED BY <1>3, <2>1, FieldTypes DEF PageType
<1> QED BY <1>2, <1>4

(* A commit keeps the types,                                               *)
LEMMA CommitTypes ==
  ASSUME TypeOK, NEW i \in Ids, Commit(i)
  PROVE  TypeOK'
<1>0. ServerType /\ PageType /\ PhoneType /\ RestType
  BY Types
<1>1. UNCHANGED <<now, cursor, writes, losses, began, slow, buried>>
      /\ tx' = [tx EXCEPT ![i] = NoTx]
  BY DEF Commit
<1>2. tx' \in [Ids -> [op : {"none", "put", "drop"}, stamp : Time]]
  BY <1>0, <1>1, EmptyTypes DEF ServerType, NoTx
<1>3. CASE CommitPut(i)
  <2> DEFINE shown == IF i \in Places /\ ~row[i].live THEN Riders(i) ELSE {}
             live  == Rides(i) => row[Of[i]].live
  <2>1. /\ row' = [k \in Ids |-> IF k = i THEN [live |-> live, stamp |-> tx[i].stamp]
                                 ELSE IF k \in shown THEN [row[k] EXCEPT !.live = TRUE]
                                 ELSE row[k]]
        /\ withheld' = (withheld \union shown) \ {i} /\ Outdate({i} \union shown) /\ tomb' = tomb
    BY <1>3, Zenon DEF CommitPut
  <2>2. shown \subseteq Ids
    BY Sharing
  <2>3. live \in BOOLEAN
    OBVIOUS
  <2>4. tx[i].stamp \in Time
    BY <1>0 DEF ServerType
  <2> HIDE DEF shown, live
  <2>5. row' \in [Ids -> [live : BOOLEAN, stamp : Time]]
    BY <1>0, <2>1, <2>3, <2>4 DEF ServerType
  <2>6. withheld' \subseteq Ids
    BY <1>0, <2>1, <2>2 DEF RestType
  <2>7. PageType' /\ mirror' \in [Ids -> {"absent", "stale", "fresh"}]
    BY <2>1, OutdateTypes
  <2>8. ServerType' /\ PhoneType' /\ RestType'
    BY <1>0, <1>1, <1>2, <2>1, <2>5, <2>6, <2>7 DEF ServerType, PhoneType, RestType
  <2> QED BY <2>7, <2>8, TypesNext
<1>4. CASE CommitDrop(i)
  <2> DEFINE gone == {i} \union (IF i \in Places THEN Riders(i) ELSE {})
  <2>1. /\ row' = [k \in Ids |-> IF k \in gone THEN [row[k] EXCEPT !.live = FALSE] ELSE row[k]]
        /\ tomb' = [k \in Ids |-> IF k \in gone THEN tx[i].stamp ELSE tomb[k]]
        /\ withheld' = withheld \ gone /\ Outdate(gone)
    BY <1>4, Zenon DEF CommitDrop
  <2>2. tx[i].stamp \in Time
    BY <1>0 DEF ServerType
  <2> HIDE DEF gone
  <2>3. row' \in [Ids -> [live : BOOLEAN, stamp : Time]]
    BY <1>0, <2>1 DEF ServerType
  <2>4. tomb' \in [Ids -> Time]
    BY <1>0, <2>1, <2>2 DEF ServerType
  <2>5. PageType' /\ mirror' \in [Ids -> {"absent", "stale", "fresh"}]
    BY <2>1, OutdateTypes
  <2>6. ServerType' /\ PhoneType' /\ RestType'
    BY <1>0, <1>1, <1>2, <2>1, <2>3, <2>4, <2>5 DEF ServerType, PhoneType, RestType
  <2> QED BY <2>5, <2>6, TypesNext
<1> QED BY <1>3, <1>4 DEF Commit

(* and so does each query of a page                                        *)
LEMMA FillTypes ==
  ASSUME TypeOK, Fill
  PROVE  TypeOK'
<1>0. ServerType /\ PageType /\ PhoneType /\ RestType
  BY Types
<1>1. page.at \in 1..Kinds
  BY FillIs
<1>2. page'.at \in 0..TombKind + 1
  BY <1>1, FillIs, Numbers
<1>3. page'.left \in 0..Limit
  BY <1>1, FillIs, GotSome, FieldTypes, Numbers
<1>4. page'.next \in Keys
  <2>1. KeyAfter(Got, Stamps, cursor.keys[page.at]) \in Time \X (Ids \union {0})
    BY <1>1, GotSome DEF Positions
  <2>2. page.next \in [1..TombKind -> Time \X (Ids \union {0})]
    BY FieldTypes DEF Keys
  <2>3. page'.next = [page.next EXCEPT ![page.at] =
                        KeyAfter(Got, Stamps, cursor.keys[page.at])]
    BY FillIs
  <2> QED BY <2>1, <2>2, <2>3 DEF Keys
<1>5. page'.rows \in [Ids -> Copies]
  BY FillIs, FieldTypes DEF Copies
<1>6. page'.more \in BOOLEAN
  BY FillIs
<1>7. page'.time \in Time /\ page'.visible \in SUBSET Shared /\ page'.drops \in SUBSET Ids
  BY FillIs, FieldTypes
<1>8. page' = [at |-> page'.at, time |-> page'.time, visible |-> page'.visible,
               left |-> page'.left, more |-> page'.more, next |-> page'.next,
               rows |-> page'.rows, drops |-> page'.drops]
  BY FillIs
<1>9. PageType'
  BY <1>2, <1>3, <1>4, <1>5, <1>6, <1>7, <1>8 DEF PageType
<1>10. ServerType' /\ PhoneType' /\ RestType'
  BY <1>0, FillIs DEF PageAlone, ServerType, PhoneType, RestType
<1> QED BY <1>9, <1>10, TypesNext

(* and that of the tombstones;                                             *)
LEMMA TombstonesTypes ==
  ASSUME TypeOK, Tombstones
  PROVE  TypeOK'
<1>0. ServerType /\ PageType /\ PhoneType /\ RestType
  BY Types
<1>1. page'.at \in 0..TombKind + 1
  BY TombstonesIs, Numbers
<1>2. page'.next \in Keys
  <2>1. KeyAfter(TombGot, tomb, cursor.keys[TombKind]) \in Time \X (Ids \union {0})
    BY TombGotSome DEF Positions
  <2>2. page.next \in [1..TombKind -> Time \X (Ids \union {0})]
    BY FieldTypes DEF Keys
  <2>3. page'.next = [page.next EXCEPT ![TombKind] =
                        KeyAfter(TombGot, tomb, cursor.keys[TombKind])]
    BY TombstonesIs
  <2> QED BY <2>1, <2>2, <2>3 DEF Keys
<1>3. page'.drops \in SUBSET Ids
  BY TombstonesIs, TombGotSome DEF Buried
<1>4. page'.more \in BOOLEAN
  BY TombstonesIs
<1>5. /\ page'.time \in Time /\ page'.visible \in SUBSET Shared
      /\ page'.left \in 0..Limit /\ page'.rows \in [Ids -> Copies]
  BY TombstonesIs, FieldTypes
<1>6. page' = [at |-> page'.at, time |-> page'.time, visible |-> page'.visible,
               left |-> page'.left, more |-> page'.more, next |-> page'.next,
               rows |-> page'.rows, drops |-> page'.drops]
  BY TombstonesIs
<1>7. PageType'
  BY <1>1, <1>2, <1>3, <1>4, <1>5, <1>6 DEF PageType
<1>8. ServerType' /\ PhoneType' /\ RestType'
  BY <1>0, TombstonesIs DEF PageAlone, ServerType, PhoneType, RestType
<1> QED BY <1>7, <1>8, TypesNext

(* a watermark is a time, as a pull begins an overlap after the beginning. *)
LEMMA ApplyTypes ==
  ASSUME TypeOK, TimeOK, Apply
  PROVE  TypeOK'
<1>0. ServerType /\ PageType /\ PhoneType /\ RestType
  BY Types
<1>1. PageType'
  BY ApplyIs, EmptyTypes DEF PageType
<1>2. mirror' \in [Ids -> {"absent", "stale", "fresh"}]
  BY <1>0, ApplyIs, FieldTypes DEF PhoneType, Copies
<1>3. cursor'.ts \in Time
  <2>1. page.time \in Time /\ Overlap <= page.time
    <3>1. page.at # 0 /\ page.time \in Time /\ began \in Time
      BY <1>0, ApplyIs, FieldTypes, Numbers DEF RestType
    <3> QED BY <3>1, Numbers DEF TimeOK, InPull, Time
  <2>2. page.time - Overlap \in Time
    BY <2>1, Numbers DEF Time
  <2> QED BY <2>2, ApplyIs, FieldTypes
<1>4. cursor'.keys \in Keys
  BY ApplyIs, FieldTypes, EmptyTypes
<1>5. PhoneType'
  BY <1>2, <1>3, <1>4, ApplyIs DEF PhoneType
<1>6. began' \in Time /\ buried' \subseteq Ids
  BY <1>0, ApplyIs, FieldTypes, EmptyTypes DEF RestType
<1>7. slow' \in BOOLEAN
  BY ApplyIs
<1>8. ServerType' /\ RestType'
  BY <1>0, <1>6, <1>7, ApplyIs DEF ServerType, RestType
<1> QED BY <1>1, <1>5, <1>8, TypesNext

(* Every step keeps the types.                                             *)
LEMMA TypesStep == TypeOK /\ TimeOK /\ [Next]_vars => TypeOK'
<1> SUFFICES ASSUME TypeOK, TimeOK, [Next]_vars PROVE TypeOK'
  OBVIOUS
<1>0. ServerType /\ PageType /\ PhoneType /\ RestType
  BY Types
<1> USE DEF server, phone, ghost
<1>1. ASSUME NEW i \in Ids, Begin(i)
      PROVE  TypeOK'
  <2>1. writes' \in 0..MaxWrites
    BY <1>0, <1>1, FeedAssumption DEF Begin, RestType
  <2>2. tx' \in [Ids -> [op : {"none", "put", "drop"}, stamp : Time]]
    BY <1>0, <1>1 DEF Begin, ServerType, RestType
  <2>3. UNCHANGED <<now, row, tomb, cursor, mirror, page, losses, began, slow, buried, withheld>>
    BY <1>1, Zenon DEF Begin
  <2> QED BY <1>0, <2>1, <2>2, <2>3, TypesNext DEF ServerType, PageType, PhoneType, RestType
<1>2. ASSUME NEW i \in Ids, Commit(i)
      PROVE  TypeOK'
  BY <1>2, CommitTypes
<1>3. CASE Reset
  <2>1. PhoneType'
    BY <1>3, EmptyTypes DEF Reset, PhoneType
  <2> QED BY <1>0, <1>3, <2>1, EmptyTypes, TypesNext DEF Reset, ServerType, PageType, RestType
<1>4. CASE Ask
  <2>1. 1 \in 0..TombKind + 1 /\ Limit \in 0..Limit
    BY Numbers
  <2>2. page'.time \in Time
    BY <1>0, <1>4, AskIs DEF RestType
  <2>3. page'.rows \in [Ids -> Copies]
    BY <1>4, AskIs DEF Copies
  <2>4. PageType'
    BY <1>4, <2>1, <2>2, <2>3, AskIs, EmptyTypes DEF PageType
  <2>5. ServerType' /\ PhoneType' /\ RestType'
    BY <1>0, <1>4, AskIs DEF PageAlone, ServerType, PhoneType, RestType
  <2> QED BY <2>4, <2>5, TypesNext
<1>5. CASE Fill
  BY <1>5, FillTypes
<1>6. CASE Tombstones
  BY <1>6, TombstonesTypes
<1>7. CASE Apply
  BY <1>7, ApplyTypes
<1>8. CASE Lose
  <2>1. losses' \in 0..MaxLosses
    BY <1>0, <1>8, FeedAssumption DEF Lose, RestType
  <2>2. PageType' /\ began' \in Time
    BY <1>0, <1>8, EmptyTypes DEF Lose, PageType, RestType
  <2>3. UNCHANGED <<now, row, tx, tomb, cursor, mirror, writes, slow, buried, withheld>>
    BY <1>8, Zenon DEF Lose
  <2> QED BY <1>0, <2>1, <2>2, <2>3, TypesNext DEF ServerType, PhoneType, RestType
<1>9. CASE sweepSyncTombstones
  <2>1. tomb' \in [Ids -> Time]
    BY <1>0, <1>9, EmptyTypes DEF sweepSyncTombstones, ServerType
  <2>2. UNCHANGED <<now, row, tx, cursor, mirror, page, writes, losses, began, slow, buried,
                    withheld>>
    BY <1>9, Zenon DEF sweepSyncTombstones
  <2> QED BY <1>0, <2>1, <2>2, TypesNext DEF ServerType, PageType, PhoneType, RestType
<1>10. CASE Tick
  <2>1. now' \in Time
    BY <1>0, <1>10, Numbers DEF Tick, RestType, Time
  <2>2. UNCHANGED <<row, tx, tomb, cursor, mirror, page, writes, losses, began, slow, buried,
                    withheld>>
    BY <1>10, Zenon DEF Tick
  <2> QED BY <1>0, <2>1, <2>2, TypesNext DEF ServerType, PageType, PhoneType, RestType
<1>11. CASE UNCHANGED vars
  BY <1>0, <1>11, TypesNext DEF vars, ServerType, PageType, PhoneType, RestType
<1> QED BY <1>1, <1>2, <1>3, <1>4, <1>5, <1>6, <1>7, <1>8, <1>9, <1>10, <1>11
     DEF Next, Pull

-----------------------------------------------------------------------------
(* What a commit does                                                      *)

(* A row that a commit leaves as the phone's account sees it               *)
Stays(k) ==
  /\ row'[k].live = row[k].live
  /\ row[k].live => row'[k].stamp = row[k].stamp
  /\ tomb'[k] = tomb[k]
  /\ mirror'[k] = mirror[k] /\ page'.rows[k] = page.rows[k]
  /\ k \in withheld' <=> k \in withheld

(* and one that it writes, shows or takes away: the phone's copy is out of *)
(* date, and the stamp no older than a transaction, unless it is withheld. *)
Moves(k) ==
  /\ mirror'[k] = Older(mirror[k]) /\ page'.rows[k] = Older(page.rows[k])
  /\ IF row'[k].live THEN k \in withheld' \/ row'[k].stamp + TxLife >= now
     ELSE k \notin withheld' /\ tomb'[k] # 0 /\ tomb'[k] + TxLife >= now

(* A commit moves or leaves each row, and writes the stamp of its          *)
(* transaction or none; what rides with a place is still in view only with *)
(* it, and what is withheld is in view.                                    *)
LEMMA CommitIs ==
  ASSUME TypeOK, TimeOK, ShareOK, FreshOK, NEW i \in Ids, Commit(i)
  PROVE  /\ UNCHANGED <<now, cursor, writes, losses, began, slow, buried>>
         /\ tx' = [tx EXCEPT ![i] = NoTx]
         /\ tx[i] # NoTx
         /\ page'.at = page.at /\ page'.time = page.time /\ page'.visible = page.visible
         /\ page'.left = page.left /\ page'.more = page.more /\ page'.next = page.next
         /\ page'.drops = page.drops
         /\ page'.rows = [k \in Ids |-> page'.rows[k]]
         /\ \A k \in Ids : Moves(k) \/ Stays(k)
         /\ \A k \in Ids : /\ row'[k].stamp \in {row[k].stamp, tx[i].stamp}
                           /\ tomb'[k] \in {tomb[k], tx[i].stamp}
         /\ \A k \in Ids : row'[k].live /\ Rides(k) => row'[Of[k]].live
         /\ \A k \in withheld' : row'[k].live
<1>0. ServerType /\ PageType /\ PhoneType /\ RestType
  BY Types
<1>1. UNCHANGED <<now, cursor, writes, losses, began, slow, buried>>
      /\ tx' = [tx EXCEPT ![i] = NoTx]
  BY Zenon DEF Commit
<1>2. tx[i] # NoTx
  BY DEF Commit, CommitPut, CommitDrop, NoTx
<1>3. tx[i].stamp \in Time /\ tx[i].stamp # 0 /\ tx[i].stamp + TxLife >= now
  BY <1>0, <1>2, Numbers DEF TimeOK, ServerType, RestType, Time
<1>4. ASSUME NEW some \in SUBSET Ids, Outdate(some)
      PROVE  /\ page'.at = page.at /\ page'.time = page.time /\ page'.visible = page.visible
             /\ page'.left = page.left /\ page'.more = page.more /\ page'.next = page.next
             /\ page'.drops = page.drops
             /\ page'.rows = [k \in Ids |-> page'.rows[k]]
             /\ \A k \in some : mirror'[k] = Older(mirror[k]) /\ page'.rows[k] = Older(page.rows[k])
             /\ \A k \in Ids \ some : mirror'[k] = mirror[k] /\ page'.rows[k] = page.rows[k]
  <2>1. /\ mirror' = [k \in Ids |-> IF k \in some THEN Older(mirror[k]) ELSE mirror[k]]
        /\ page'.rows = [k \in Ids |-> IF k \in some THEN Older(page.rows[k]) ELSE page.rows[k]]
        /\ page'.at = page.at /\ page'.time = page.time /\ page'.visible = page.visible
        /\ page'.left = page.left /\ page'.more = page.more /\ page'.next = page.next
        /\ page'.drops = page.drops
    BY <1>4, OutdateIs, Zenon
  <2> QED BY <2>1
<1>5. CASE CommitPut(i)
  <2> DEFINE shown == IF i \in Places /\ ~row[i].live THEN Riders(i) ELSE {}
             live  == Rides(i) => row[Of[i]].live
  <2>1. /\ row' = [k \in Ids |-> IF k = i THEN [live |-> live, stamp |-> tx[i].stamp]
                                 ELSE IF k \in shown THEN [row[k] EXCEPT !.live = TRUE]
                                 ELSE row[k]]
        /\ withheld' = (withheld \union shown) \ {i} /\ Outdate({i} \union shown) /\ tomb' = tomb
    BY <1>5, Zenon DEF CommitPut
  <2>2. shown \subseteq Ids /\ (shown # {} => i \in Places /\ ~row[i].live)
        /\ \A k \in shown : k # i /\ Rides(k) /\ Of[k] = i
    BY Sharing DEF Riders
  <2>3. \A k \in Ids : Rides(k) /\ Of[k] = i => live
    BY Sharing
  <2>4. live \in BOOLEAN
    OBVIOUS
  <2>5. ~live => /\ Rides(i) /\ ~row[i].live /\ shown = {} /\ i \notin withheld
                 /\ mirror[i] # "fresh" /\ page.rows[i] # "fresh"
    BY Sharing DEF ShareOK, FreshOK
  <2>6. i \in Places => live
    BY Sharing
  <2> HIDE DEF shown, live
  <2>7. /\ row'[i].live = live /\ row'[i].stamp = tx[i].stamp
        /\ \A k \in shown : row'[k].live /\ row'[k].stamp = row[k].stamp
        /\ \A k \in Ids \ (shown \union {i}) : row'[k] = row[k]
    BY <1>0, <2>1, <2>2, <2>4 DEF ServerType
  <2>8. {i} \union shown \in SUBSET Ids
    BY <2>2
  <2>9. ASSUME NEW k \in Ids
        PROVE  Moves(k) \/ Stays(k)
    <3>1. CASE k \in shown
      <4>1. k \in withheld' /\ row'[k].live
        BY <2>1, <2>2, <2>7, <3>1
      <4> QED BY <1>4, <2>1, <2>8, <3>1, <4>1 DEF Moves
    <3>2. CASE k = i /\ live
      <4>1. mirror'[k] = Older(mirror[k]) /\ page'.rows[k] = Older(page.rows[k])
        BY <1>4, <2>1, <2>8, <3>2
      <4>2. row'[k].live /\ row'[k].stamp + TxLife >= now
        BY <1>3, <2>7, <3>2
      <4> QED BY <4>1, <4>2 DEF Moves
    <3>3. CASE k = i /\ ~live
      <4>1. mirror'[k] = mirror[k] /\ page'.rows[k] = page.rows[k]
        BY <1>4, <2>1, <2>5, <2>8, <3>3 DEF Older
      <4>2. ~row'[k].live /\ ~row[k].live
        BY <2>5, <2>7, <3>3
      <4> QED BY <1>0, <2>1, <2>4, <2>5, <2>7, <3>3, <4>1, <4>2 DEF Stays, ServerType
    <3>4. CASE k \notin shown \union {i}
      <4>1. mirror'[k] = mirror[k] /\ page'.rows[k] = page.rows[k]
        BY <1>4, <2>1, <2>8, <3>4
      <4>2. row'[k] = row[k] /\ tomb'[k] = tomb[k] /\ (k \in withheld' <=> k \in withheld)
        BY <2>1, <2>7, <3>4
      <4> QED BY <4>1, <4>2 DEF Stays
    <3> QED BY <3>1, <3>2, <3>3, <3>4
  <2>10. \A k \in Ids : /\ row'[k].stamp \in {row[k].stamp, tx[i].stamp}
                        /\ tomb'[k] \in {tomb[k], tx[i].stamp}
    BY <2>1, <2>7
  <2>11. ASSUME NEW k \in Ids, row'[k].live, Rides(k)
         PROVE  row'[Of[k]].live
    <3>1. Of[k] \in Ids /\ Of[k] \in Places
      BY <2>11, Sharing
    <3>2. CASE Of[k] = i
      BY <2>3, <2>7, <2>11, <3>2
    <3>3. CASE Of[k] # i
      <4>1. Of[k] \notin shown
        BY <2>2, <3>1, Sharing
      <4>2. row'[Of[k]] = row[Of[k]]
        BY <2>7, <3>1, <3>3, <4>1
      <4>3. CASE k = i
        BY <2>7, <2>11, <4>2, <4>3 DEF live
      <4>4. CASE k # i
        <5>1. k \notin shown
          BY <2>2, <3>3
        <5> QED BY <2>7, <2>11, <4>2, <4>4, <5>1 DEF ShareOK
      <4> QED BY <4>3, <4>4
    <3> QED BY <3>2, <3>3
  <2>12. \A k \in withheld' : row'[k].live
    <3>1. \A k \in withheld : k \in Ids /\ row[k].live
      BY <1>0 DEF ShareOK, RestType
    <3> QED BY <2>1, <2>7, <3>1
  <2> QED BY <1>1, <1>2, <1>4, <2>1, <2>8, <2>9, <2>10, <2>11, <2>12
<1>6. CASE CommitDrop(i)
  <2> DEFINE gone == {i} \union (IF i \in Places THEN Riders(i) ELSE {})
  <2>1. /\ row' = [k \in Ids |-> IF k \in gone THEN [row[k] EXCEPT !.live = FALSE] ELSE row[k]]
        /\ tomb' = [k \in Ids |-> IF k \in gone THEN tx[i].stamp ELSE tomb[k]]
        /\ withheld' = withheld \ gone /\ Outdate(gone)
    BY <1>6, Zenon DEF CommitDrop
  <2>2. gone \in SUBSET Ids
    BY Sharing
  <2>3. ASSUME NEW k \in Ids \ gone, Rides(k)
        PROVE  Of[k] \in Ids \ gone
    <3>1. Of[k] \in Places
      BY <2>3, Sharing
    <3>2. CASE i \in Places
      <4>1. Of[k] # i
        BY <2>3, <3>2, Sharing DEF Riders, Rides
      <4>2. \A l \in Riders(i) : l \notin Places
        BY <3>2, Sharing
      <4> QED BY <3>1, <4>1, <4>2, Sharing
    <3>3. CASE i \notin Places
      BY <3>1, <3>3, Sharing
    <3> QED BY <3>2, <3>3
  <2> HIDE DEF gone
  <2>4. /\ \A k \in gone : /\ row'[k].live = FALSE /\ row'[k].stamp = row[k].stamp
                           /\ tomb'[k] = tx[i].stamp
        /\ \A k \in Ids \ gone : row'[k] = row[k] /\ tomb'[k] = tomb[k]
    BY <1>0, <2>1, <2>2 DEF ServerType
  <2>5. ASSUME NEW k \in Ids
        PROVE  Moves(k) \/ Stays(k)
    <3>1. CASE k \in gone
      BY <1>3, <1>4, <2>1, <2>2, <2>4, <3>1 DEF Moves
    <3>2. CASE k \notin gone
      BY <1>4, <2>1, <2>2, <2>4, <3>2 DEF Stays
    <3> QED BY <3>1, <3>2
  <2>6. \A k \in Ids : /\ row'[k].stamp \in {row[k].stamp, tx[i].stamp}
                       /\ tomb'[k] \in {tomb[k], tx[i].stamp}
    BY <2>4
  <2>7. \A k \in Ids : row'[k].live /\ Rides(k) => row'[Of[k]].live
    BY <2>3, <2>4 DEF ShareOK
  <2>8. \A k \in withheld' : row'[k].live
    <3>1. \A k \in withheld : k \in Ids /\ row[k].live
      BY <1>0 DEF ShareOK, RestType
    <3> QED BY <2>1, <2>4, <3>1
  <2> QED BY <1>1, <1>2, <1>4, <2>1, <2>2, <2>5, <2>6, <2>7, <2>8
<1> QED BY <1>5, <1>6 DEF Commit

-----------------------------------------------------------------------------
(* The parts of the invariant, step by step                                *)

(* The types as numbers, for the steps that compare times                  *)
LEMMA TimeTypes ==
  ASSUME TypeOK
  PROVE  /\ now \in Nat /\ began \in Nat /\ cursor.ts \in Nat /\ page.time \in Nat
         /\ \A i \in Ids : row[i].stamp \in Nat /\ tx[i].stamp \in Nat /\ tomb[i] \in Nat
BY Numbers DEF TypeOK, Time

(* The clock runs, and what is stamped is stamped with its present time.   *)
LEMMA TimeStep ==
  TypeOK /\ TimeOK /\ ShareOK /\ PageOK /\ FreshOK /\ [Next]_vars => TimeOK'
<1> SUFFICES ASSUME TypeOK, TimeOK, ShareOK, PageOK, FreshOK, [Next]_vars PROVE TimeOK'
  OBVIOUS
<1>0. ServerType /\ PageType /\ PhoneType /\ RestType
  BY Types
<1> USE TimeTypes, Numbers DEF server, phone, ghost
<1>1. ASSUME NEW i \in Ids, Begin(i)
      PROVE  TimeOK'
  <2>1. UNCHANGED <<now, row, tomb, cursor, page, began>>
    BY <1>1, Zenon DEF Begin
  <2>2. PICK op \in {"put", "drop"} : tx' = [tx EXCEPT ![i] = [op |-> op, stamp |-> now]]
    BY <1>1 DEF Begin
  <2>3. ASSUME NEW k \in Ids, tx'[k] # NoTx
        PROVE  /\ tx'[k].op # "none" /\ 0 < tx'[k].stamp
               /\ tx'[k].stamp <= now /\ now <= tx'[k].stamp + TxLife
    <3>1. CASE k = i
      <4>1. tx'[k] = [op |-> op, stamp |-> now]
        BY <1>0, <2>2, <3>1 DEF ServerType
      <4> QED BY <4>1 DEF TimeOK
    <3>2. CASE k # i
      <4>1. tx'[k] = tx[k]
        BY <1>0, <2>2, <3>2 DEF ServerType
      <4> QED BY <2>3, <4>1 DEF TimeOK
    <3> QED BY <3>1, <3>2
  <2> QED BY <2>1, <2>3 DEF TimeOK, InPull
<1>2. ASSUME NEW i \in Ids, Commit(i)
      PROVE  TimeOK'
  <2>1. /\ UNCHANGED <<now, cursor, began>> /\ page'.at = page.at /\ page'.time = page.time
        /\ tx' = [tx EXCEPT ![i] = NoTx] /\ tx[i] # NoTx
        /\ \A k \in Ids : /\ row'[k].stamp \in {row[k].stamp, tx[i].stamp}
                          /\ tomb'[k] \in {tomb[k], tx[i].stamp}
    BY <1>2, CommitIs
  <2>2. \A k \in Ids : tx'[k] # NoTx => tx'[k] = tx[k]
    BY <1>0, <2>1 DEF ServerType
  <2>3. 0 < tx[i].stamp /\ tx[i].stamp <= now
    BY <2>1 DEF TimeOK
  <2> QED BY <2>1, <2>2, <2>3 DEF TimeOK, InPull
<1>3. CASE Reset
  <2>1. page.at = 0 /\ cursor' = Start /\ began' = 0 /\ UNCHANGED <<now, row, tx, tomb, page>>
    BY <1>3, Zenon DEF Reset
  <2> QED BY <2>1 DEF Start, TimeOK, InPull
<1>4. CASE Ask
  <2>1. /\ page.at = 0 /\ page'.time = now
        /\ began' = IF cursor.keys = NoKeys THEN now ELSE began
        /\ UNCHANGED <<now, row, tx, tomb, cursor>>
    BY <1>4, AskIs DEF PageAlone
  <2> QED BY <2>1 DEF TimeOK, InPull
<1>5. CASE Fill
  <2>1. page.at # 0 /\ page'.time = page.time /\ UNCHANGED <<now, row, tx, tomb, cursor, began>>
    BY <1>5, FillIs DEF PageAlone
  <2> QED BY <2>1 DEF TimeOK, InPull
<1>6. CASE Tombstones
  <2>1. page.at # 0 /\ page'.time = page.time /\ UNCHANGED <<now, row, tx, tomb, cursor, began>>
    BY <1>6, TombstonesIs DEF PageAlone
  <2> QED BY <2>1 DEF TimeOK, InPull
<1>7. CASE Apply
  <2>1. page.at # 0 /\ page'.at = 0 /\ UNCHANGED <<now, row, tx, tomb>>
    BY <1>7, ApplyIs DEF NoPage
  <2>2. CASE page.more
    <3>1. cursor'.ts = cursor.ts /\ began' = began
      BY <1>7, <2>2, ApplyIs
    <3> QED BY <2>1, <3>1 DEF TimeOK, InPull
  <2>3. CASE ~page.more
    <3>1. cursor'.ts = page.time - Overlap /\ cursor'.keys = NoKeys /\ began' = 0
      BY <1>7, <2>3, ApplyIs
    <3> QED BY <2>1, <3>1 DEF TimeOK, InPull
  <2> QED BY <2>2, <2>3
<1>8. CASE Lose
  <2>1. /\ page.at # 0 /\ page' = NoPage
        /\ began' = IF cursor.keys = NoKeys THEN 0 ELSE began
        /\ UNCHANGED <<now, row, tx, tomb, cursor>>
    BY <1>8, Zenon DEF Lose
  <2>2. page'.at = 0
    BY <2>1 DEF NoPage
  <2>3. InPull' => began' = began
    BY <2>1, <2>2 DEF InPull
  <2>4. began' <= now
    BY <2>1 DEF TimeOK
  <2>5. InPull
    BY <2>1 DEF InPull
  <2> QED BY <2>1, <2>2, <2>3, <2>4, <2>5 DEF TimeOK
<1>9. CASE sweepSyncTombstones
  <2>1. tomb' = [i \in Ids |-> IF Swept(i) THEN 0 ELSE tomb[i]]
        /\ UNCHANGED <<now, row, tx, cursor, page, began>>
    BY <1>9, Zenon DEF sweepSyncTombstones
  <2>2. \A i \in Ids : tomb'[i] <= now
    BY <2>1 DEF TimeOK
  <2> QED BY <2>1, <2>2 DEF TimeOK, InPull
<1>10. CASE Tick
  <2>1. /\ now' = now + 1 /\ UNCHANGED <<row, tx, tomb, cursor, page, began>>
        /\ \A i \in Ids : tx[i] # NoTx => now - tx[i].stamp < TxLife
    BY <1>10, Zenon DEF Tick
  <2> QED BY <2>1 DEF TimeOK, InPull
<1>11. CASE UNCHANGED vars
  <2>1. UNCHANGED <<now, row, tx, tomb, cursor, page, began>>
    BY <1>11, Zenon DEF vars
  <2> QED BY <2>1 DEF TimeOK, InPull
<1> QED BY <1>1, <1>2, <1>3, <1>4, <1>5, <1>6, <1>7, <1>8, <1>9, <1>10, <1>11
     DEF Next, Pull

(* Only a commit shows rows or takes them away.                            *)
LEMMA ShareStep ==
  TypeOK /\ TimeOK /\ ShareOK /\ FreshOK /\ [Next]_vars => ShareOK'
<1> SUFFICES ASSUME TypeOK, TimeOK, ShareOK, FreshOK, [Next]_vars PROVE ShareOK'
  OBVIOUS
<1>1. ASSUME NEW i \in Ids, Commit(i)
      PROVE  ShareOK'
  BY <1>1, CommitIs DEF ShareOK, Rides, Shared, Places
<1>2. CASE Reset
  <2>1. row' = row /\ withheld' = {}
    BY <1>2, Zenon DEF Reset, server
  <2> QED BY <2>1 DEF ShareOK, Rides, Shared, Places
<1>3. ASSUME row' = row /\ withheld' = withheld
      PROVE  ShareOK'
  BY <1>3 DEF ShareOK, Rides, Shared, Places
<1>4. ASSUME NEW i \in Ids, Begin(i)
      PROVE  row' = row /\ withheld' = withheld
  BY <1>4, Zenon DEF Begin, ghost
<1>5. CASE Ask \/ Fill \/ Tombstones
  BY <1>3, <1>5, AskIs, FillIs, TombstonesIs DEF PageAlone
<1>6. CASE Apply
  BY <1>3, <1>6, ApplyIs
<1>7. CASE Lose \/ sweepSyncTombstones \/ Tick \/ UNCHANGED vars
  <2>1. row' = row /\ withheld' = withheld
    BY <1>7, Zenon DEF Lose, sweepSyncTombstones, Tick, vars, server, ghost
  <2> QED BY <1>3, <2>1
<1> QED BY <1>1, <1>2, <1>3, <1>4, <1>5, <1>6, <1>7 DEF Next, Pull

(* A page that takes a row goes on somewhere.                              *)
LEMMA PageStep ==
  TypeOK /\ TimeOK /\ ShareOK /\ PageOK /\ FreshOK /\ [Next]_vars => PageOK'
<1> SUFFICES ASSUME TypeOK, TimeOK, ShareOK, PageOK, FreshOK, [Next]_vars PROVE PageOK'
  OBVIOUS
<1>0. /\ page.next \in [1..TombKind -> Positions] /\ page.left \in Nat
      /\ page.rows \in [Ids -> Copies]
  BY FieldTypes, Numbers DEF Keys, Positions
<1> USE Numbers
<1>1. ASSUME NEW i \in Ids, Commit(i)
      PROVE  PageOK'
  <2>1. /\ page'.at = page.at /\ page'.left = page.left /\ page'.more = page.more
        /\ page'.next = page.next /\ page'.drops = page.drops
        /\ page'.time = page.time /\ page'.visible = page.visible
        /\ \A k \in Ids : Moves(k) \/ Stays(k)
    BY <1>1, CommitIs
  <2>2. \A k \in Ids : page'.rows[k] # "none" => page.rows[k] # "none"
    BY <2>1 DEF Moves, Stays, Older
  <2>3. page.at = 0 => page' = NoPage
    <3> SUFFICES ASSUME page.at = 0 PROVE page' = NoPage
      OBVIOUS
    <3>1. page = NoPage
      BY DEF PageOK
    <3>2. \A k \in Ids : page'.rows[k] = "none"
      BY <2>2, <3>1 DEF NoPage
    <3>3. page'.rows = [k \in Ids |-> "none"]
      BY <1>1, <3>2, CommitIs
    <3>4. page' = [at |-> page'.at, time |-> page'.time, visible |-> page'.visible,
                   left |-> page'.left, more |-> page'.more, next |-> page'.next,
                   rows |-> page'.rows, drops |-> page'.drops]
      <4>1. PageType'
        BY <1>1, CommitTypes DEF TypeOK, PageType
      <4> QED BY <4>1 DEF PageType
    <3> QED BY <2>1, <3>1, <3>3, <3>4 DEF NoPage
  <2> QED BY <2>1, <2>2, <2>3 DEF PageOK
<1>2. CASE Ask
  <2>1. /\ page'.at = 1 /\ page'.left = Limit /\ page'.more = FALSE /\ page'.drops = {}
        /\ page'.rows = [i \in Ids |-> "none"]
    BY <1>2, AskIs
  <2> QED BY <2>1 DEF PageOK
<1>3. CASE Fill
  <2> DEFINE k == page.at
             key == KeyAfter(Got, Stamps, cursor.keys[k])
  <2>1. /\ k \in 1..Kinds /\ page'.at = k + 1 /\ page'.drops = page.drops
        /\ page'.left = page.left - Cardinality(Got)
        /\ page'.more = (Spent \/ Got # Changed(k))
        /\ page'.next = [page.next EXCEPT ![k] = key]
        /\ page'.rows = [i \in Ids |-> IF i \notin Got THEN page.rows[i]
                                       ELSE IF row[i].live THEN "fresh" ELSE "stale"]
    BY <1>3, FillIs
  <2>2. /\ Got \subseteq Changed(k) /\ Cardinality(Got) \in 0..page.left
        /\ Got # {} => key # NoKey
        /\ ~Spent /\ Got = {} => Changed(k) = {}
        /\ Spent => Got = {}
        /\ Spent /\ ~page.more => page.left = 0
    BY <2>1, GotSome
  <2>3. page.drops = {}
    BY <2>1 DEF PageOK
  <2>4. \A i \in Ids : page'.rows[i] # "none" => KindOf[i] < page'.at /\ i \notin page'.drops
    BY <2>1, <2>2, <2>3 DEF PageOK, Changed
  <2>5. page'.more \/ page'.left < Limit =>
          \E l \in 1..TombKind : l < page'.at /\ page'.next[l] # NoKey
    <3>1. CASE Got # {}
      <4>1. page'.next[k] = key /\ k < page'.at /\ k \in 1..TombKind
        BY <1>0, <2>1
      <4> QED BY <2>2, <3>1, <4>1
    <3>2. CASE Got = {}
      <4>1. Cardinality(Got) = 0
        BY <3>2, FS_EmptySet
      <4>2. page'.left = page.left
        BY <1>0, <2>1, <4>1
      <4>3. page'.more => Spent
        BY <2>1, <2>2, <3>2
      <4>4. page'.more \/ page'.left < Limit => page.more \/ page.left < Limit
        BY <2>2, <4>2, <4>3
      <4>5. ASSUME page.more \/ page.left < Limit
            PROVE  \E l \in 1..TombKind : l < page'.at /\ page'.next[l] # NoKey
        <5>1. PICK l \in 1..TombKind : l < page.at /\ page.next[l] # NoKey
          BY <2>1, <4>5 DEF PageOK
        <5>2. page'.next[l] = page.next[l] /\ l < page'.at
          BY <1>0, <2>1, <5>1
        <5> QED BY <5>1, <5>2
      <4> QED BY <4>4, <4>5
    <3> QED BY <3>1, <3>2
  <2> QED BY <2>1, <2>3, <2>4, <2>5 DEF PageOK
<1>4. CASE Tombstones
  <2> DEFINE key == KeyAfter(TombGot, tomb, cursor.keys[TombKind])
  <2>1. /\ page.at = TombKind /\ page'.at = TombKind + 1
        /\ page'.more = (TombSpent \/ TombGot # Buried)
        /\ page'.next = [page.next EXCEPT ![TombKind] = key]
        /\ page'.drops = {i \in TombGot : page.rows[i] = "none"}
        /\ page'.left = page.left /\ page'.rows = page.rows
    BY <1>4, TombstonesIs
  <2>2. /\ TombGot # {} => key # NoKey
        /\ ~TombSpent /\ TombGot = {} => Buried = {}
        /\ TombSpent => TombGot = {}
    BY TombGotSome
  <2>3. \A i \in Ids : page'.rows[i] # "none" => KindOf[i] < page'.at /\ i \notin page'.drops
    BY <2>1 DEF PageOK
  <2>4. page'.more \/ page'.left < Limit =>
          \E l \in 1..TombKind : l < page'.at /\ page'.next[l] # NoKey
    <3>1. CASE TombGot # {}
      <4>1. page'.next[TombKind] = key /\ TombKind < page'.at /\ TombKind \in 1..TombKind
        BY <1>0, <2>1
      <4> QED BY <2>2, <3>1, <4>1
    <3>2. CASE TombGot = {}
      <4>1. page'.more => TombSpent
        BY <2>1, <2>2, <3>2
      <4>2. page'.more \/ page'.left < Limit => page.more \/ page.left < Limit
        BY <1>0, <2>1, <4>1 DEF TombSpent
      <4>3. ASSUME page.more \/ page.left < Limit
            PROVE  \E l \in 1..TombKind : l < page'.at /\ page'.next[l] # NoKey
        <5>1. PICK l \in 1..TombKind : l < page.at /\ page.next[l] # NoKey
          BY <2>1, <4>3 DEF PageOK
        <5>2. page'.next[l] = page.next[l] /\ l < page'.at
          BY <1>0, <2>1, <5>1
        <5> QED BY <5>1, <5>2
      <4> QED BY <4>2, <4>3
    <3> QED BY <3>1, <3>2
  <2> QED BY <2>1, <2>3, <2>4 DEF PageOK
<1>5. CASE page' = NoPage
  BY <1>5 DEF NoPage, PageOK
<1>6. CASE page' = page
  BY <1>6 DEF PageOK
<1>7. ASSUME NEW i \in Ids, Begin(i)
      PROVE  page' = page
  BY <1>7, Zenon DEF Begin
<1>8. CASE Reset \/ sweepSyncTombstones \/ Tick \/ UNCHANGED vars
  <2>1. page' = page
    BY <1>8, Zenon DEF Reset, sweepSyncTombstones, Tick, vars
  <2> QED BY <1>6, <2>1
<1>9. CASE Apply \/ Lose
  <2>1. page' = NoPage
    BY <1>9, Zenon DEF Apply, Lose
  <2> QED BY <1>5, <2>1
<1> QED BY <1>1, <1>2, <1>3, <1>4, <1>6, <1>7, <1>8, <1>9 DEF Next, Pull

(* What goes out of view is out of date.                                   *)
LEMMA FreshStep ==
  TypeOK /\ TimeOK /\ ShareOK /\ PageOK /\ FreshOK /\ [Next]_vars => FreshOK'
<1> SUFFICES ASSUME TypeOK, TimeOK, ShareOK, PageOK, FreshOK, [Next]_vars PROVE FreshOK'
  OBVIOUS
<1>1. ASSUME NEW i \in Ids, Commit(i)
      PROVE  FreshOK'
  <2>1. \A k \in Ids : Moves(k) \/ Stays(k)
    BY <1>1, CommitIs
  <2>2. ASSUME NEW k \in Ids
        PROVE  mirror'[k] = "fresh" \/ page'.rows[k] = "fresh" => row'[k].live
    <3>1. CASE Moves(k)
      BY <3>1 DEF Moves, Older
    <3>2. CASE Stays(k)
      BY <3>2 DEF Stays, FreshOK
    <3> QED BY <2>1, <3>1, <3>2
  <2> QED BY <2>2 DEF FreshOK
<1>2. CASE Reset
  <2>1. mirror' = [i \in Ids |-> "absent"] /\ row' = row /\ page' = page
    BY <1>2, Zenon DEF Reset, server
  <2> QED BY <2>1 DEF FreshOK
<1>3. CASE Ask
  BY <1>3, AskIs DEF FreshOK, PageAlone
<1>4. CASE Fill
  <2>1. /\ page'.rows = [i \in Ids |-> IF i \notin Got THEN page.rows[i]
                                       ELSE IF row[i].live THEN "fresh" ELSE "stale"]
        /\ row' = row /\ mirror' = mirror
    BY <1>4, FillIs DEF PageAlone
  <2> QED BY <2>1 DEF FreshOK
<1>5. CASE Tombstones
  <2>1. page'.rows = page.rows /\ row' = row /\ mirror' = mirror
    BY <1>5, TombstonesIs DEF PageAlone
  <2> QED BY <2>1 DEF FreshOK
<1>6. CASE Apply
  <2>1. /\ mirror' = [i \in Ids |-> IF i \in page.drops THEN "absent"
                                    ELSE IF page.rows[i] # "none" THEN page.rows[i]
                                    ELSE mirror[i]]
        /\ row' = row /\ page' = NoPage
    BY <1>6, ApplyIs
  <2> QED BY <2>1 DEF FreshOK, NoPage
<1>7. CASE Lose
  <2>1. mirror' = mirror /\ row' = row /\ page' = NoPage
    BY <1>7, Zenon DEF Lose, server, phone
  <2> QED BY <2>1 DEF FreshOK, NoPage
<1>8. CASE UNCHANGED <<row, mirror, page>>
  BY <1>8 DEF FreshOK
<1>9. ASSUME NEW i \in Ids, Begin(i)
      PROVE  UNCHANGED <<row, mirror, page>>
  BY <1>9, Zenon DEF Begin, phone
<1>10. CASE sweepSyncTombstones \/ Tick \/ UNCHANGED vars
  <2>1. UNCHANGED <<row, mirror, page>>
    BY <1>10, Zenon DEF sweepSyncTombstones, Tick, vars, server, phone
  <2> QED BY <1>8, <2>1
<1> QED BY <1>1, <1>2, <1>3, <1>4, <1>5, <1>6, <1>7, <1>8, <1>9, <1>10 DEF Next, Pull

(* The same of the next state                                              *)
SinceNext(i, time) ==
  IF row'[i].live THEN row'[i].stamp + TxLife >= time
  ELSE IF tomb'[i] # 0 THEN tomb'[i] + TxLife >= time ELSE now' + TxLife > time + TTL

(* What a commit moves has changed since any time that has been; what it   *)
(* leaves has if it had.                                                   *)
LEMMA SinceCommit ==
  ASSUME TypeOK, TypeOK', NEW k \in Ids, NEW time \in Nat, time <= now, now' = now,
         \/ Moves(k) /\ k \notin withheld'
         \/ Stays(k) /\ Since(k, time)
  PROVE  SinceNext(k, time)
<1>1. CASE Moves(k) /\ k \notin withheld'
  <2>1. row'[k].stamp \in Nat /\ tomb'[k] \in Nat /\ now \in Nat
    BY Numbers DEF TypeOK, Time
  <2> QED BY <1>1, <2>1, Numbers DEF Moves, SinceNext
<1>2. CASE Stays(k) /\ Since(k, time)
  BY <1>2 DEF Stays, Since, SinceNext
<1> QED BY <1>1, <1>2

(* The clock and the sweep of the tombstones keep it so.                   *)
Passes == \/ now' = now + 1 /\ tomb' = tomb
          \/ now' = now /\ tomb' = [i \in Ids |-> IF Swept(i) THEN 0 ELSE tomb[i]]
          \/ now' = now /\ tomb' = tomb

(* What has changed since some time still has after time or a sweep.       *)
LEMMA SincePasses ==
  ASSUME TypeOK, NEW k \in Ids, NEW time \in Nat, row' = row, Passes, Since(k, time)
  PROVE  SinceNext(k, time)
<1> USE TimeTypes, Numbers
<1>1. CASE now' = now + 1 /\ tomb' = tomb
  BY <1>1 DEF Since, SinceNext
<1>2. CASE now' = now /\ tomb' = [i \in Ids |-> IF Swept(i) THEN 0 ELSE tomb[i]]
  <2>1. tomb'[k] = IF tomb[k] < now - TTL THEN 0 ELSE tomb[k]
    BY <1>2 DEF Swept
  <2> QED BY <1>2, <2>1 DEF Since, SinceNext
<1>3. CASE now' = now /\ tomb' = tomb
  BY <1>3 DEF Since, SinceNext
<1> QED BY <1>1, <1>2, <1>3 DEF Passes

(* Since an earlier time all the more                                      *)
LEMMA SinceEarlier ==
  ASSUME TypeOK, NEW k \in Ids, NEW time \in Nat, NEW earlier \in Nat, earlier <= time,
         Since(k, time)
  PROVE  Since(k, earlier)
BY TimeTypes, Numbers DEF Since

(* The steps that touch neither page nor phone                             *)
Outside ==
  /\ UNCHANGED <<row, cursor, mirror, page, began, slow, buried, withheld>>
  /\ Passes

(* These are the steps of nobody's page.                                   *)
LEMMA OutsideSteps ==
  /\ \A i \in Ids : Begin(i) => Outside
  /\ sweepSyncTombstones \/ Tick \/ UNCHANGED vars => Outside
<1>1. ASSUME NEW i \in Ids, Begin(i)
      PROVE  Outside
  BY <1>1, Zenon DEF Begin, Outside, Passes, phone, ghost
<1>2. CASE sweepSyncTombstones
  BY <1>2, Zenon DEF sweepSyncTombstones, Outside, Passes, phone, ghost
<1>3. CASE Tick
  BY <1>3, Zenon DEF Tick, Outside, Passes, server, phone, ghost
<1>4. CASE UNCHANGED vars
  BY <1>4, Zenon DEF vars, Outside, Passes, server, phone, ghost
<1> QED BY <1>1, <1>2, <1>3, <1>4

(* A page in the making                                                    *)
LEMMA ViewStep ==
  TypeOK /\ TimeOK /\ ShareOK /\ FreshOK /\ ViewOK /\ [Next]_vars => ViewOK'
<1> SUFFICES ASSUME TypeOK, TimeOK, ShareOK, FreshOK, ViewOK, [Next]_vars,
                    page'.at # 0, NEW k \in Ids, k \notin withheld'
             PROVE  /\ k \in Shared /\ (row'[k].live <=> k \notin page'.visible)
                         => SinceNext(k, page'.time)
                    /\ page'.rows[k] = "stale" => SinceNext(k, page'.time)
  BY DEF ViewOK, SinceNext, Since, Shared
<1> USE TimeTypes, Numbers
<1>1. ASSUME NEW i \in Ids, Commit(i)
      PROVE  /\ k \in Shared /\ (row'[k].live <=> k \notin page'.visible)
                  => SinceNext(k, page'.time)
             /\ page'.rows[k] = "stale" => SinceNext(k, page'.time)
  <2>1. /\ page'.at = page.at /\ page'.time = page.time /\ page'.visible = page.visible
        /\ now' = now /\ (Moves(k) \/ Stays(k)) /\ TypeOK'
    BY <1>1, CommitIs, CommitTypes
  <2>2. page.time <= now
    BY <2>1 DEF TimeOK
  <2>3. CASE Moves(k)
    BY <2>1, <2>2, <2>3, SinceCommit
  <2>4. CASE Stays(k)
    <3>1. Since(k, page.time) => SinceNext(k, page.time)
      BY <2>1, <2>2, <2>4, SinceCommit
    <3>2. /\ row'[k].live = row[k].live /\ page'.rows[k] = page.rows[k] /\ k \notin withheld
      BY <2>4 DEF Stays
    <3> QED BY <2>1, <3>1, <3>2 DEF ViewOK
  <2> QED BY <2>1, <2>3, <2>4
<1>2. CASE Ask
  BY <1>2, AskIs DEF PageAlone, Shared
<1>3. CASE Fill
  <2>1. /\ page.at # 0 /\ page'.time = page.time /\ page'.visible = page.visible
        /\ page.at \in 1..Kinds
        /\ page'.rows[k] = IF k \notin Got THEN page.rows[k]
                           ELSE IF row[k].live THEN "fresh" ELSE "stale"
        /\ UNCHANGED <<now, row, tomb, withheld>>
    BY <1>3, FillIs DEF PageAlone
  <2>2. Since(k, page.time) => SinceNext(k, page.time)
    BY <2>1 DEF Since, SinceNext
  <2>3. k \in Got /\ ~row[k].live => k \in Shared /\ k \in page.visible
    BY <2>1, GotSome DEF Changed
  <2> QED BY <2>1, <2>2, <2>3 DEF ViewOK
<1>4. CASE Tombstones
  <2>1. /\ page.at # 0 /\ page'.time = page.time /\ page'.visible = page.visible
        /\ page'.rows = page.rows /\ UNCHANGED <<now, row, tomb, withheld>>
    BY <1>4, TombstonesIs DEF PageAlone
  <2>2. Since(k, page.time) => SinceNext(k, page.time)
    BY <2>1 DEF Since, SinceNext
  <2> QED BY <2>1, <2>2 DEF ViewOK
<1>5. CASE Outside
  <2>1. UNCHANGED <<row, page, withheld>>
    BY <1>5 DEF Outside
  <2>2. Since(k, page.time) => SinceNext(k, page.time)
    BY <1>5, SincePasses DEF Outside
  <2> QED BY <2>1, <2>2 DEF ViewOK
<1>6. CASE Reset
  <2>1. page.at = 0 /\ page' = page
    BY <1>6, Zenon DEF Reset
  <2> QED BY <2>1
<1>7. CASE Apply \/ Lose
  <2>1. page' = NoPage
    BY <1>7, Zenon DEF Apply, Lose
  <2> QED BY <2>1 DEF NoPage
<1> QED BY <1>1, <1>2, <1>3, <1>4, <1>5, <1>6, <1>7, OutsideSteps DEF Next, Pull

(* The first pull, and one that began anew                                 *)
LEMMA FirstStep ==
  /\ TypeOK /\ TimeOK /\ ShareOK /\ PageOK /\ FreshOK /\ ViewOK /\ FirstOK
  /\ [Next]_vars
  => FirstOK'
<1> SUFFICES ASSUME TypeOK, TimeOK, ShareOK, PageOK, FreshOK, ViewOK, FirstOK, [Next]_vars,
                    cursor'.ts = 0, NEW k \in Ids
             PROVE  /\ cursor'.keys = NoKeys => mirror'[k] = "absent"
                    /\ k \notin withheld' /\ mirror'[k] = "stale" => SinceNext(k, began')
  BY DEF FirstOK, SinceNext, Since
<1> USE TimeTypes, Numbers
<1>1. ASSUME NEW i \in Ids, Commit(i)
      PROVE  /\ cursor'.keys = NoKeys => mirror'[k] = "absent"
             /\ k \notin withheld' /\ mirror'[k] = "stale" => SinceNext(k, began')
  <2>1. UNCHANGED <<now, cursor, began>> /\ (Moves(k) \/ Stays(k)) /\ TypeOK'
    BY <1>1, CommitIs, CommitTypes
  <2>2. began <= now
    BY DEF TimeOK
  <2>3. CASE Moves(k)
    <3>1. k \notin withheld' => SinceNext(k, began)
      BY <2>1, <2>2, <2>3, SinceCommit
    <3>2. cursor.keys = NoKeys => mirror'[k] = "absent"
      BY <2>1, <2>3 DEF Moves, Older, FirstOK
    <3> QED BY <2>1, <3>1, <3>2
  <2>4. CASE Stays(k)
    <3>1. Since(k, began) => SinceNext(k, began)
      BY <2>1, <2>2, <2>4, SinceCommit
    <3>2. mirror'[k] = mirror[k] /\ (k \in withheld' <=> k \in withheld)
      BY <2>4 DEF Stays
    <3> QED BY <2>1, <3>1, <3>2 DEF FirstOK
  <2> QED BY <2>1, <2>3, <2>4
<1>2. CASE Reset
  <2>1. mirror'[k] = "absent"
    BY <1>2 DEF Reset
  <2> QED BY <2>1
<1>3. CASE Ask
  <2>1. /\ UNCHANGED <<now, row, tomb, cursor, mirror, withheld>>
        /\ began' = IF cursor.keys = NoKeys THEN now ELSE began
    BY <1>3, AskIs DEF PageAlone
  <2>2. cursor.keys # NoKeys => (Since(k, began) => SinceNext(k, began'))
    BY <2>1 DEF Since, SinceNext
  <2> QED BY <2>1, <2>2 DEF FirstOK
<1>4. CASE Fill \/ Tombstones
  <2>1. UNCHANGED <<now, row, tomb, cursor, mirror, withheld, began>>
    BY <1>4, FillIs, TombstonesIs DEF PageAlone
  <2>2. Since(k, began) => SinceNext(k, began')
    BY <2>1 DEF Since, SinceNext
  <2> QED BY <2>1, <2>2 DEF FirstOK
<1>5. CASE Apply
  <2>1. page.at = TombKind + 1 /\ UNCHANGED <<now, row, tomb, withheld>>
        /\ mirror'[k] = IF k \in page.drops THEN "absent"
                        ELSE IF page.rows[k] # "none" THEN page.rows[k] ELSE mirror[k]
    BY <1>5, ApplyIs
  <2>2. page.at # 0 /\ began <= page.time /\ Overlap + 2 <= began
    BY <2>1 DEF TimeOK, InPull
  <2>3. CASE page.more
    <3>1. cursor'.ts = cursor.ts /\ cursor'.keys = page.next /\ began' = began
      BY <1>5, <2>3, ApplyIs
    <3>2. page.next # NoKeys
      BY <2>2, <2>3 DEF PageOK, NoKeys
    <3>3. Since(k, began) => SinceNext(k, began')
      BY <2>1, <3>1 DEF Since, SinceNext
    <3>4. page.rows[k] = "stale" /\ k \notin withheld => Since(k, began)
      BY <2>2, SinceEarlier DEF ViewOK
    <3> QED BY <2>1, <3>1, <3>2, <3>3, <3>4 DEF FirstOK
  <2>4. CASE ~page.more
    <3>1. cursor'.ts = page.time - Overlap
      BY <1>5, <2>4, ApplyIs
    <3> QED BY <2>2, <3>1
  <2> QED BY <2>3, <2>4
<1>6. CASE Lose
  <2>1. /\ UNCHANGED <<now, row, tomb, cursor, mirror, withheld>>
        /\ began' = IF cursor.keys = NoKeys THEN 0 ELSE began
    BY <1>6, Zenon DEF Lose, server, phone
  <2>2. cursor.keys # NoKeys => (Since(k, began) => SinceNext(k, began'))
    BY <2>1 DEF Since, SinceNext
  <2> QED BY <2>1, <2>2 DEF FirstOK
<1>7. CASE Outside
  <2>1. UNCHANGED <<row, cursor, mirror, began, withheld>>
    BY <1>7 DEF Outside
  <2>2. Since(k, began) => SinceNext(k, began)
    BY <1>7, SincePasses DEF Outside
  <2> QED BY <2>1, <2>2 DEF FirstOK
<1> QED BY <1>1, <1>2, <1>3, <1>4, <1>5, <1>6, <1>7, OutsideSteps DEF Next, Pull

(* What changed since some time lies after the watermarks before it.       *)
LEMMA SinceAfter ==
  ASSUME TypeOK, NEW k \in Ids, NEW ts \in Nat, NEW time \in Nat, Since(k, time),
         ts + TxLife < time
  PROVE  \/ row[k].live /\ row[k].stamp > ts
         \/ ~row[k].live /\ tomb[k] > ts
         \/ ~row[k].live /\ tomb[k] = 0 /\ ts < now - TTL
BY TimeTypes, Numbers DEF Since

(* A commit leaves owed what it leaves.                                    *)
LEMMA StaysOwed ==
  ASSUME TypeOK, NEW k \in Ids, Stays(k), UNCHANGED <<now, cursor, began, buried>>,
         page'.at = page.at, page'.more = page.more, page'.next = page.next,
         page'.drops = page.drops
  PROVE  /\ Lacks(k)' => Lacks(k)
         /\ AfterWatermark(k) => AfterWatermark(k)'
         /\ Owed(k) => Owed(k)'
         /\ PageCovers(k) => PageCovers(k)'
<1> USE DEF Stays
<1>1. Lacks(k)' => Lacks(k)
  BY DEF Lacks, Differs
<1>2. AfterWatermark(k) => AfterWatermark(k)'
  BY DEF AfterWatermark, pastTombstoneHorizon
<1>3. Since(k, began) => Since(k, began)'
  BY DEF Since
<1>4. Forgotten(k) => Forgotten(k)'
  BY DEF Forgotten, pastTombstoneHorizon
<1>5. KindNow(k)' = KindNow(k) /\ StampNow(k)' = StampNow(k)
  BY DEF KindNow, StampNow
<1>6. Coming(k, cursor.keys) => Coming(k, cursor.keys)'
  BY <1>5 DEF Coming, Wanted
<1>7. Coming(k, page.next) => Coming(k, page.next)'
  BY <1>5 DEF Coming, Wanted
<1>8. Owed(k) => Owed(k)'
  BY <1>3, <1>4, <1>6, Zenon DEF Owed
<1>9. PageCovers(k) => PageCovers(k)'
  BY <1>3, <1>4, <1>5, <1>7 DEF PageCovers
<1> QED BY <1>1, <1>2, <1>8, <1>9

(* What it moves has changed since the pull began, and lies after the      *)
(* watermark.                                                              *)
LEMMA MovesOwed ==
  ASSUME TypeOK, TypeOK', TimeOK, NEW k \in Ids, Moves(k), k \notin withheld',
         UNCHANGED <<now, cursor, began>>
  PROVE  AfterWatermark(k)' /\ Since(k, began)'
<1>1. now \in Nat /\ cursor.ts \in Nat /\ began \in Nat /\ began <= now
      /\ cursor.ts + Overlap <= now
  BY TimeTypes DEF TimeOK
<1>2. row'[k].stamp \in Nat /\ tomb'[k] \in Nat
  BY Numbers DEF TypeOK, Time
<1>3. Since(k, began)'
  BY <1>1, <1>2, Numbers DEF Moves, Since
<1>4. AfterWatermark(k)'
  BY <1>1, <1>2, Numbers DEF Moves, AfterWatermark
<1> QED BY <1>3, <1>4

(* The clock leaves owed what is owed, and so does the sweep: a tombstone  *)
(* it forgets was from before the horizon, and so is the watermark.        *)
LEMMA OutsideOwed ==
  ASSUME TypeOK, FirstOK, NEW k \in Ids, Outside, Lacks(k), AfterWatermark(k)
  PROVE  /\ AfterWatermark(k)'
         /\ Since(k, began) => Since(k, began)'
         /\ Forgotten(k) => Forgotten(k)'
         /\ Coming(k, cursor.keys) => Owed(k)'
         /\ Coming(k, page.next) =>
              Since(k, began)' \/ Forgotten(k)' \/ Coming(k, page.next)'
<1> USE TimeTypes, Numbers
<1>1. UNCHANGED <<row, cursor, mirror, page, began, buried, withheld>> /\ Passes
  BY DEF Outside
<1>2. Since(k, began) => Since(k, began)'
  <2>1. Since(k, began) => SinceNext(k, began)
    BY <1>1, SincePasses
  <2> QED BY <1>1, <2>1 DEF Since, SinceNext
<1>3. pastTombstoneHorizon => pastTombstoneHorizon'
  BY <1>1 DEF Passes, pastTombstoneHorizon
<1>4. CASE tomb'[k] = tomb[k]
  <2>1. AfterWatermark(k)'
    BY <1>1, <1>3, <1>4 DEF AfterWatermark
  <2>2. Forgotten(k) => Forgotten(k)'
    BY <1>1, <1>3, <1>4 DEF Forgotten
  <2>3. KindNow(k)' = KindNow(k) /\ StampNow(k)' = StampNow(k)
    BY <1>1, <1>4 DEF KindNow, StampNow
  <2>4. Coming(k, cursor.keys) => Coming(k, cursor.keys)'
    BY <1>1, <1>4, <2>3 DEF Coming, Wanted
  <2>5. Coming(k, page.next) => Coming(k, page.next)'
    BY <1>1, <1>4, <2>3 DEF Coming, Wanted
  <2> QED BY <1>2, <2>1, <2>2, <2>4, <2>5 DEF Owed
<1>5. CASE tomb'[k] # tomb[k] /\ row[k].live
  <2>1. AfterWatermark(k)' /\ ~Forgotten(k)
    BY <1>1, <1>5 DEF AfterWatermark, Forgotten
  <2>2. KindNow(k)' = KindNow(k) /\ StampNow(k)' = StampNow(k)
    BY <1>1, <1>5 DEF KindNow, StampNow
  <2>3. Coming(k, cursor.keys) => Coming(k, cursor.keys)'
    BY <1>1, <1>5, <2>2 DEF Coming, Wanted
  <2>4. Coming(k, page.next) => Coming(k, page.next)'
    BY <1>1, <1>5, <2>2 DEF Coming, Wanted
  <2> QED BY <1>2, <2>1, <2>3, <2>4 DEF Owed
<1>6. CASE tomb'[k] # tomb[k] /\ ~row[k].live
  <2>1. now' = now /\ tomb'[k] = 0 /\ tomb[k] # 0 /\ tomb[k] < now - TTL
    BY <1>1, <1>6 DEF Passes, Swept
  <2>2. tomb[k] > cursor.ts
    BY <1>6, <2>1 DEF AfterWatermark
  <2>3. CASE cursor.ts = 0
    <3>1. mirror[k] = "stale" /\ k \notin withheld
      BY <1>6 DEF Lacks, Differs
    <3>2. Since(k, began)
      BY <2>3, <3>1 DEF FirstOK
    <3>3. AfterWatermark(k)'
      BY <1>1, <1>6, <2>1, <2>3 DEF AfterWatermark
    <3>4. ~Forgotten(k)
      BY <2>1 DEF Forgotten
    <3> QED BY <1>2, <3>2, <3>3, <3>4 DEF Owed
  <2>4. CASE cursor.ts # 0
    <3>1. pastTombstoneHorizon'
      BY <1>1, <2>1, <2>2, <2>4 DEF pastTombstoneHorizon
    <3>2. AfterWatermark(k)' /\ Forgotten(k)'
      BY <1>1, <1>6, <2>1, <3>1 DEF AfterWatermark, Forgotten
    <3> QED BY <1>2, <3>2 DEF Owed
  <2> QED BY <2>3, <2>4
<1> QED BY <1>4, <1>5, <1>6

(* A page applied: what the phone then lacks has changed since the pull    *)
(* began, or the feed goes on before it.                                   *)
LEMMA ApplyOwes ==
  ASSUME TypeOK, TimeOK, PageOK, ViewOK, PageOwes, Apply, ~slow', NEW k \in Ids, Lacks(k)'
  PROVE  Since(k, began) \/ (page.more /\ Lacks(k) /\ Coming(k, page.next))
<1> USE TimeTypes, Numbers
<1>1. /\ page.at = TombKind + 1 /\ ~slow /\ ~pastTombstoneHorizon
      /\ mirror'[k] = IF k \in page.drops THEN "absent"
                      ELSE IF page.rows[k] # "none" THEN page.rows[k] ELSE mirror[k]
      /\ buried' = (buried \ {i \in Ids : page.rows[i] # "none"})
                     \union {i \in page.drops : mirror[i] = "fresh"}
      /\ UNCHANGED <<row, withheld>>
  BY ApplyIs
<1>2. page.at # 0 /\ began <= page.time /\ k \notin withheld /\ k \notin buried'
  BY <1>1 DEF TimeOK, Lacks
<1>3. page.rows[k] \in Copies /\ mirror[k] \in {"absent", "stale", "fresh"}
  BY FieldTypes DEF TypeOK
<1>4. CASE page.rows[k] = "stale"
  <2>1. Since(k, page.time)
    BY <1>2, <1>4 DEF ViewOK
  <2> QED BY <1>2, <2>1, SinceEarlier
<1>5. CASE page.rows[k] = "fresh"
  <2>1. mirror'[k] = "fresh"
    BY <1>1, <1>5 DEF PageOK
  <2> QED BY <2>1 DEF Lacks, Differs
<1>6. CASE page.rows[k] = "none"
  <2>1. k \notin buried /\ (k \in page.drops => mirror[k] # "fresh" /\ row[k].live)
    BY <1>1, <1>2, <1>6 DEF Lacks, Differs
  <2>2. Lacks(k)
    BY <1>1, <1>2, <1>3, <1>6, <2>1 DEF Lacks, Differs
  <2>3. ~Forgotten(k)
    BY <1>1 DEF Forgotten
  <2>4. ~(KindNow(k) >= page.at)
    <3>1. KindOf[k] \in 1..Kinds
      BY Numbers
    <3> QED BY <1>1, <3>1 DEF KindNow
  <2>5. PageCovers(k)
    BY <1>1, <1>2, <2>2 DEF PageOwes
  <2> QED BY <1>6, <2>1, <2>2, <2>3, <2>4, <2>5 DEF PageCovers
<1> QED BY <1>3, <1>4, <1>5, <1>6 DEF Copies

(* What the phone lacks stays ahead of its cursor.                         *)
LEMMA CursorStep == FeedInv /\ [Next]_vars => CursorOwes'
<1> SUFFICES ASSUME FeedInv, [Next]_vars, ~slow', NEW k \in Ids, Lacks(k)'
             PROVE  AfterWatermark(k)' /\ Owed(k)'
  BY DEF CursorOwes
<1>0. /\ TypeOK /\ TimeOK /\ ShareOK /\ PageOK /\ FreshOK /\ ViewOK /\ FirstOK
      /\ CursorOwes /\ PageOwes
  BY DEF FeedInv
<1> USE <1>0, TimeTypes, Numbers
<1>1. ASSUME NEW i \in Ids, Commit(i)
      PROVE  AfterWatermark(k)' /\ Owed(k)'
  <2>1. /\ UNCHANGED <<now, cursor, began, slow, buried>> /\ page'.at = page.at
        /\ page'.more = page.more /\ page'.next = page.next /\ page'.drops = page.drops
        /\ (Moves(k) \/ Stays(k)) /\ TypeOK'
    BY <1>1, CommitIs, CommitTypes
  <2>2. CASE Moves(k)
    <3>1. k \notin withheld'
      BY DEF Lacks
    <3> QED BY <2>1, <2>2, <3>1, MovesOwed DEF Owed
  <2>3. CASE Stays(k)
    <3>1. Lacks(k)
      BY <2>1, <2>3, StaysOwed
    <3>2. AfterWatermark(k) /\ Owed(k)
      BY <2>1, <3>1 DEF CursorOwes
    <3> QED BY <2>1, <2>3, <3>2, StaysOwed
  <2> QED BY <2>1, <2>2, <2>3
<1>2. CASE Reset
  <2>1. /\ cursor' = Start /\ began' = 0 /\ UNCHANGED <<now, row, tomb>>
        /\ mirror' = [i \in Ids |-> "absent"]
    BY <1>2, Zenon DEF Reset, server
  <2>2. row[k].live /\ 0 < row[k].stamp
    BY <2>1 DEF Lacks, Differs, TimeOK
  <2>3. cursor'.ts = 0
    BY <2>1 DEF Start
  <2>4. AfterWatermark(k)'
    BY <2>1, <2>2, <2>3 DEF AfterWatermark
  <2>5. Since(k, began)'
    BY <2>1, <2>2 DEF Since
  <2> QED BY <2>4, <2>5 DEF Owed
<1>3. CASE Ask
  <2>1. /\ ~pastTombstoneHorizon
        /\ UNCHANGED <<now, row, tomb, cursor, mirror, slow, buried, withheld>>
        /\ began' = IF cursor.keys = NoKeys THEN now ELSE began
    BY <1>3, AskIs DEF PageAlone
  <2>2. Lacks(k)
    BY <2>1 DEF Lacks, Differs
  <2>3. AfterWatermark(k) /\ Owed(k)
    BY <2>1, <2>2 DEF CursorOwes
  <2>4. AfterWatermark(k)'
    BY <2>1, <2>3 DEF AfterWatermark, pastTombstoneHorizon
  <2>5. CASE cursor.keys # NoKeys
    <3>1. began' = began
      BY <2>1, <2>5
    <3>2. Since(k, began) => Since(k, began)'
      BY <2>1, <3>1 DEF Since
    <3>3. Forgotten(k) => Forgotten(k)'
      BY <2>1 DEF Forgotten, pastTombstoneHorizon
    <3>4. KindNow(k)' = KindNow(k) /\ StampNow(k)' = StampNow(k)
      BY <2>1 DEF KindNow, StampNow
    <3>5. Coming(k, cursor.keys) => Coming(k, cursor.keys)'
      BY <2>1, <3>4 DEF Coming, Wanted
    <3> QED BY <2>3, <2>4, <3>2, <3>3, <3>5 DEF Owed
  <2>6. CASE cursor.keys = NoKeys
    <3>1. row[k].live \/ tomb[k] # 0
      <4>1. cursor.ts = 0 => mirror[k] = "absent"
        BY <2>6 DEF FirstOK
      <4> QED BY <2>1, <2>2, <2>3, <4>1 DEF AfterWatermark, Lacks, Differs
    <3>2. StampNow(k) > cursor.ts
      BY <2>3, <3>1 DEF AfterWatermark, StampNow
    <3>3. cursor.keys[KindNow(k)] = NoKey
      <4>1. KindNow(k) \in 1..TombKind
        BY DEF KindNow
      <4> QED BY <2>6, <4>1 DEF NoKeys
    <3>4. Coming(k, cursor.keys)
      BY <3>1, <3>2, <3>3 DEF Coming, Wanted
    <3>5. KindNow(k)' = KindNow(k) /\ StampNow(k)' = StampNow(k)
      BY <2>1 DEF KindNow, StampNow
    <3>6. Coming(k, cursor.keys)'
      BY <2>1, <3>4, <3>5 DEF Coming, Wanted
    <3> QED BY <2>4, <3>6 DEF Owed
  <2> QED BY <2>4, <2>5, <2>6
<1>4. CASE Fill \/ Tombstones
  <2>1. UNCHANGED <<now, row, tomb, cursor, mirror, slow, buried, withheld, began>>
    BY <1>4, FillIs, TombstonesIs DEF PageAlone
  <2>2. Lacks(k)
    BY <2>1 DEF Lacks, Differs
  <2>3. AfterWatermark(k) /\ Owed(k)
    BY <2>1, <2>2 DEF CursorOwes
  <2>4. AfterWatermark(k)'
    BY <2>1, <2>3 DEF AfterWatermark, pastTombstoneHorizon
  <2>5. Owed(k)'
    BY <2>1, <2>3 DEF Owed, Since, Forgotten, Coming, Wanted, KindNow, StampNow,
                      pastTombstoneHorizon
  <2> QED BY <2>4, <2>5
<1>5. CASE Apply
  <2>1. /\ page.at = TombKind + 1 /\ ~slow /\ ~pastTombstoneHorizon
        /\ ~page.more => page.time - began < Overlap - TxLife
        /\ UNCHANGED <<now, row, tomb>>
    <3>1. slow' = (slow \/ pastTombstoneHorizon
                     \/ (~page.more /\ page.time - began >= Overlap - TxLife))
      BY <1>5, ApplyIs, Zenon
    <3>2. ~slow /\ ~pastTombstoneHorizon
      BY <3>1
    <3>3. ~(~page.more /\ page.time - began >= Overlap - TxLife)
      BY <3>1
    <3>4. ~page.more => page.time - began < Overlap - TxLife
      BY <3>3
    <3>5. page.at = TombKind + 1 /\ UNCHANGED <<now, row, tomb>>
      BY <1>5, ApplyIs, Zenon
    <3> QED BY <3>2, <3>4, <3>5
  <2>2. /\ page.at # 0 /\ Overlap + 2 <= began /\ cursor.ts + Overlap <= began
        /\ began <= page.time
    BY <2>1 DEF TimeOK, InPull
  <2>3. Since(k, began) \/ (page.more /\ Lacks(k) /\ Coming(k, page.next))
    BY <1>5, ApplyOwes
  <2>4. CASE page.more
    <3>1. cursor'.ts = cursor.ts /\ cursor'.keys = page.next /\ began' = began
      BY <1>5, <2>4, ApplyIs
    <3>2. AfterWatermark(k)
      <4>1. CASE Since(k, began)
        <5>1. cursor.ts + TxLife < began
          BY <2>2
        <5> QED BY <4>1, <5>1, SinceAfter DEF AfterWatermark, pastTombstoneHorizon
      <4>2. CASE Lacks(k)
        BY <2>1, <4>2 DEF CursorOwes
      <4> QED BY <2>3, <4>1, <4>2
    <3>3. AfterWatermark(k)'
      BY <2>1, <3>1, <3>2 DEF AfterWatermark, pastTombstoneHorizon
    <3>4. Since(k, began) => Since(k, began)'
      BY <2>1, <3>1 DEF Since
    <3>5. Coming(k, page.next) => Coming(k, cursor.keys)'
      BY <2>1, <3>1 DEF Coming, Wanted, KindNow, StampNow
    <3> QED BY <2>3, <3>3, <3>4, <3>5 DEF Owed
  <2>5. CASE ~page.more
    <3>1. cursor'.ts = page.time - Overlap /\ began' = 0
      BY <1>5, <2>5, ApplyIs
    <3>2. Since(k, began)
      BY <2>3, <2>5
    <3>3. cursor'.ts \in Nat /\ cursor'.ts # 0 /\ cursor'.ts + TxLife < began
      BY <2>1, <2>2, <2>5, <3>1
    <3>4. \/ row[k].live /\ row[k].stamp > cursor'.ts
          \/ ~row[k].live /\ tomb[k] > cursor'.ts
          \/ ~row[k].live /\ tomb[k] = 0 /\ cursor'.ts < now - TTL
      BY <3>2, <3>3, SinceAfter
    <3>5. AfterWatermark(k)'
      BY <2>1, <3>3, <3>4 DEF AfterWatermark, pastTombstoneHorizon
    <3>6. Since(k, began)' \/ Forgotten(k)'
      BY <2>1, <3>1, <3>3, <3>4 DEF Since, Forgotten, pastTombstoneHorizon
    <3> QED BY <3>5, <3>6 DEF Owed
  <2> QED BY <2>4, <2>5
<1>6. CASE Lose
  <2>1. /\ UNCHANGED <<now, row, tomb, cursor, mirror, slow, buried, withheld>>
        /\ began' = IF cursor.keys = NoKeys THEN 0 ELSE began
    BY <1>6, Zenon DEF Lose, server, phone
  <2>2. Lacks(k)
    BY <2>1 DEF Lacks, Differs
  <2>3. AfterWatermark(k) /\ Owed(k)
    BY <2>1, <2>2 DEF CursorOwes
  <2>4. AfterWatermark(k)'
    BY <2>1, <2>3 DEF AfterWatermark, pastTombstoneHorizon
  <2>5. CASE cursor.keys # NoKeys
    <3>1. began' = began
      BY <2>1, <2>5
    <3>2. Since(k, began) => Since(k, began)'
      BY <2>1, <3>1 DEF Since
    <3>3. Forgotten(k) => Forgotten(k)'
      BY <2>1 DEF Forgotten, pastTombstoneHorizon
    <3>4. KindNow(k)' = KindNow(k) /\ StampNow(k)' = StampNow(k)
      BY <2>1 DEF KindNow, StampNow
    <3>5. Coming(k, cursor.keys) => Coming(k, cursor.keys)'
      BY <2>1, <3>4 DEF Coming, Wanted
    <3> QED BY <2>3, <2>4, <3>2, <3>3, <3>5 DEF Owed
  <2>6. CASE cursor.keys = NoKeys
    <3>1. cursor.ts = 0 => mirror[k] = "absent"
      BY <2>6 DEF FirstOK
    <3>2. row[k].live \/ tomb[k] # 0 \/ Forgotten(k)
      BY <2>2, <2>3, <3>1 DEF AfterWatermark, Lacks, Differs, Forgotten
    <3>3. CASE row[k].live \/ tomb[k] # 0
      <4>1. began' = 0 /\ row' = row /\ tomb' = tomb
        BY <2>1, <2>6
      <4>2. Since(k, began)'
        BY <3>3, <4>1 DEF Since
      <4> QED BY <2>4, <4>2 DEF Owed
    <3>4. CASE Forgotten(k)
      <4>1. Forgotten(k)'
        BY <2>1, <3>4 DEF Forgotten, pastTombstoneHorizon
      <4> QED BY <2>4, <4>1 DEF Owed
    <3> QED BY <3>2, <3>3, <3>4
  <2> QED BY <2>4, <2>5, <2>6
<1>7. CASE Outside
  <2>1. Lacks(k) /\ ~slow
    BY <1>7 DEF Outside, Lacks, Differs
  <2>2. AfterWatermark(k) /\ Owed(k)
    BY <2>1 DEF CursorOwes
  <2> QED BY <1>7, <2>1, <2>2, OutsideOwed DEF Owed
<1> QED BY <1>1, <1>2, <1>3, <1>4, <1>5, <1>6, <1>7, OutsideSteps DEF Next, Pull

(* and what a page has not brought is yet to come, in it or in the next.   *)
LEMMA PageOwesStep == FeedInv /\ [Next]_vars => PageOwes'
<1> SUFFICES ASSUME FeedInv, [Next]_vars, ~slow', page'.at # 0, NEW k \in Ids, Lacks(k)'
             PROVE  PageCovers(k)'
  BY DEF PageOwes
<1>0. /\ TypeOK /\ TimeOK /\ ShareOK /\ PageOK /\ FreshOK /\ ViewOK /\ FirstOK
      /\ CursorOwes /\ PageOwes
  BY DEF FeedInv
<1> USE <1>0, TimeTypes, Numbers
<1>1. ASSUME NEW i \in Ids, Commit(i)
      PROVE  PageCovers(k)'
  <2>1. /\ UNCHANGED <<now, cursor, began, slow, buried>> /\ page'.at = page.at
        /\ page'.more = page.more /\ page'.next = page.next /\ page'.drops = page.drops
        /\ (Moves(k) \/ Stays(k)) /\ TypeOK'
    BY <1>1, CommitIs, CommitTypes
  <2>2. CASE Moves(k)
    <3>1. k \notin withheld'
      BY DEF Lacks
    <3> QED BY <2>1, <2>2, <3>1, MovesOwed DEF PageCovers
  <2>3. CASE Stays(k)
    <3>1. Lacks(k)
      BY <2>1, <2>3, StaysOwed
    <3>2. PageCovers(k)
      BY <2>1, <3>1 DEF PageOwes
    <3> QED BY <2>1, <2>3, <3>2, StaysOwed
  <2> QED BY <2>1, <2>2, <2>3
<1>2. CASE Ask
  <2>1. page'.at = 1
    BY <1>2, AskIs
  <2>2. KindNow(k)' >= 1
    BY DEF KindNow
  <2> QED BY <2>1, <2>2 DEF PageCovers
<1>3. CASE Fill
  <2> DEFINE at  == page.at
             key == KeyAfter(Got, Stamps, cursor.keys[at])
  <2>1. /\ at \in 1..Kinds /\ page'.at = at + 1 /\ page'.drops = page.drops
        /\ page'.more = (Spent \/ Got # Changed(at))
        /\ page'.next = [page.next EXCEPT ![at] = key]
        /\ page'.rows[k] = IF k \notin Got THEN page.rows[k]
                           ELSE IF row[k].live THEN "fresh" ELSE "stale"
    BY <1>3, FillIs
  <2>2. UNCHANGED <<now, row, tomb, cursor, mirror, slow, buried, withheld, began>>
    BY <1>3, FillIs DEF PageAlone
  <2>3. /\ Got \subseteq Changed(at) /\ (page.more => Spent)
        /\ Spent => Got = {}
        /\ Got = {} => key = cursor.keys[at]
        /\ ~Spent => \A i \in Changed(at) \ Got : Wanted(row[i].stamp, i, key)
    BY <2>1, GotSome
  <2>4. Lacks(k) /\ ~slow /\ page.at # 0
    BY <2>1, <2>2 DEF Lacks, Differs
  <2>5. Owed(k) /\ PageCovers(k)
    BY <2>4 DEF CursorOwes, PageOwes
  <2>6. KindNow(k)' = KindNow(k) /\ StampNow(k)' = StampNow(k) /\ KindNow(k) \in 1..TombKind
    BY <2>2 DEF KindNow, StampNow
  <2>7. (Since(k, began) => Since(k, began)') /\ (Forgotten(k) => Forgotten(k)')
    BY <2>2 DEF Since, Forgotten, pastTombstoneHorizon
  <2>8. page.next \in [1..TombKind -> Positions]
    BY FieldTypes DEF Keys, Positions
  <2>9. CASE KindNow(k) > at
    BY <2>1, <2>6, <2>9 DEF PageCovers
  <2>10. CASE KindNow(k) = at
    <3>1. row[k].live /\ KindOf[k] = at /\ StampNow(k) = row[k].stamp
      BY <2>1, <2>10 DEF KindNow, StampNow
    <3>2. CASE ~Wanted(row[k].stamp, k, cursor.keys[at])
      <4>1. Since(k, began) \/ Forgotten(k)
        BY <2>5, <2>10, <3>1, <3>2 DEF Owed, Coming
      <4> QED BY <2>7, <4>1 DEF PageCovers
    <3>3. CASE Wanted(row[k].stamp, k, cursor.keys[at]) /\ k \notin Changed(at)
      <4>1. k \in Shared /\ k \notin page.visible
        BY <3>1, <3>3 DEF Changed
      <4>2. k \notin withheld /\ began <= page.time
        BY <2>4 DEF Lacks, TimeOK
      <4>3. Since(k, page.time)
        BY <2>4, <3>1, <4>1, <4>2 DEF ViewOK
      <4> QED BY <2>7, <4>2, <4>3, SinceEarlier DEF PageCovers
    <3>4. CASE k \in Got
      <4>1. page'.rows[k] = "fresh"
        BY <2>1, <3>1, <3>4
      <4> QED BY <4>1 DEF PageCovers
    <3>5. CASE Wanted(row[k].stamp, k, cursor.keys[at]) /\ k \in Changed(at) \ Got
      <4>1. page'.next[at] = key
        BY <2>1, <2>8
      <4>2. Wanted(row[k].stamp, k, key)
        BY <2>3, <3>5
      <4>3. page'.more
        BY <2>1, <3>5
      <4>4. Coming(k, page.next)'
        BY <2>2, <2>6, <2>10, <3>1, <4>1, <4>2 DEF Coming, Wanted
      <4> QED BY <4>3, <4>4 DEF PageCovers
    <3> QED BY <3>2, <3>3, <3>4, <3>5
  <2>11. CASE KindNow(k) < at
    <3>1. row[k].live /\ KindOf[k] < at
      BY <2>1, <2>11 DEF KindNow
    <3>2. k \notin Got
      BY <2>3, <3>1 DEF Changed
    <3>3. page'.rows[k] = page.rows[k]
      BY <2>1, <3>2
    <3>4. page.more /\ Coming(k, page.next) => page'.more /\ Coming(k, page.next)'
      <4>1. page'.next[KindNow(k)] = page.next[KindNow(k)]
        BY <2>1, <2>6, <2>8, <2>11
      <4>2. page.more => page'.more
        BY <2>1, <2>3
      <4> QED BY <2>2, <2>6, <4>1, <4>2 DEF Coming, Wanted
    <3>5. CASE Since(k, began) \/ Forgotten(k)
      BY <2>7, <3>5 DEF PageCovers
    <3>6. CASE page.rows[k] = "fresh"
      BY <3>3, <3>6 DEF PageCovers
    <3>7. CASE page.more /\ Coming(k, page.next)
      BY <3>4, <3>7 DEF PageCovers
    <3>8. ~(KindNow(k) >= at)
      BY <2>1, <2>6, <2>11
    <3> QED BY <2>5, <3>1, <3>5, <3>6, <3>7, <3>8 DEF PageCovers
  <2> QED BY <2>1, <2>6, <2>9, <2>10, <2>11
<1>4. CASE Tombstones
  <2> DEFINE key == KeyAfter(TombGot, tomb, cursor.keys[TombKind])
  <2>1. /\ page.at = TombKind /\ page'.at = TombKind + 1
        /\ page'.more = (TombSpent \/ TombGot # Buried)
        /\ page'.next = [page.next EXCEPT ![TombKind] = key]
        /\ page'.drops = {i \in TombGot : page.rows[i] = "none"}
        /\ page'.rows = page.rows
    BY <1>4, TombstonesIs
  <2>2. UNCHANGED <<now, row, tomb, cursor, mirror, slow, buried, withheld, began>>
    BY <1>4, TombstonesIs DEF PageAlone
  <2>3. /\ TombGot \subseteq Buried /\ (page.more => TombSpent)
        /\ TombSpent => TombGot = {}
        /\ TombGot = {} => key = cursor.keys[TombKind]
        /\ ~TombSpent => \A i \in Buried \ TombGot : Wanted(tomb[i], i, key)
    BY TombGotSome DEF TombSpent
  <2>4. Lacks(k) /\ ~slow /\ page.at # 0
    BY <2>1, <2>2 DEF Lacks, Differs
  <2>5. Owed(k) /\ PageCovers(k)
    BY <2>4 DEF CursorOwes, PageOwes
  <2>6. KindNow(k)' = KindNow(k) /\ StampNow(k)' = StampNow(k)
    BY <2>2 DEF KindNow, StampNow
  <2>7. (Since(k, began) => Since(k, began)') /\ (Forgotten(k) => Forgotten(k)')
    BY <2>2 DEF Since, Forgotten, pastTombstoneHorizon
  <2>8. page.next \in [1..TombKind -> Positions]
    BY FieldTypes DEF Keys, Positions
  <2>9. CASE row[k].live
    <3>1. KindNow(k) = KindOf[k] /\ KindOf[k] \in 1..Kinds
      BY <2>9 DEF KindNow
    <3>2. page.more /\ Coming(k, page.next) => page'.more /\ Coming(k, page.next)'
      <4>1. page'.next[KindNow(k)] = page.next[KindNow(k)]
        BY <2>1, <2>8, <3>1
      <4>2. page.more => page'.more
        BY <2>1, <2>3
      <4> QED BY <2>2, <2>6, <4>1, <4>2 DEF Coming, Wanted
    <3>3. ~(KindNow(k) >= page.at)
      BY <2>1, <3>1
    <3> QED BY <2>1, <2>5, <2>7, <2>9, <3>2, <3>3 DEF PageCovers
  <2>10. CASE ~row[k].live /\ k \notin Buried
    <3>1. Since(k, began) \/ Forgotten(k)
      BY <2>5, <2>10 DEF Owed, Coming, KindNow, StampNow, Buried
    <3> QED BY <2>7, <3>1 DEF PageCovers
  <2>11. CASE ~row[k].live /\ k \in TombGot
    <3>1. CASE page.rows[k] = "none"
      BY <2>1, <2>2, <2>11, <3>1 DEF PageCovers
    <3>2. CASE page.rows[k] # "none"
      <4>1. page.rows[k] = "stale"
        BY <2>11, <3>2, FieldTypes DEF FreshOK, Copies
      <4>2. k \notin withheld /\ began <= page.time
        BY <2>4 DEF Lacks, TimeOK
      <4>3. Since(k, page.time)
        BY <2>4, <4>1, <4>2 DEF ViewOK
      <4> QED BY <2>7, <4>2, <4>3, SinceEarlier DEF PageCovers
    <3> QED BY <3>1, <3>2
  <2>12. CASE ~row[k].live /\ k \in Buried \ TombGot
    <3>1. page'.next[TombKind] = key
      BY <2>1, <2>8
    <3>2. Wanted(tomb[k], k, key) /\ tomb[k] # 0
      BY <2>3, <2>12 DEF Buried
    <3>3. page'.more
      BY <2>1, <2>12
    <3>4. Coming(k, page.next)'
      BY <2>2, <2>12, <3>1, <3>2 DEF Coming, Wanted, KindNow, StampNow
    <3> QED BY <3>3, <3>4 DEF PageCovers
  <2> QED BY <2>9, <2>10, <2>11, <2>12
<1>5. CASE Reset
  <2>1. page.at = 0 /\ page' = page
    BY <1>5, Zenon DEF Reset
  <2> QED BY <2>1
<1>6. CASE Apply \/ Lose
  <2>1. page' = NoPage
    BY <1>6, Zenon DEF Apply, Lose
  <2> QED BY <2>1 DEF NoPage
<1>7. CASE Outside
  <2>1. UNCHANGED <<row, page, slow>> /\ Lacks(k)
    BY <1>7 DEF Outside, Lacks, Differs
  <2>2. AfterWatermark(k) /\ PageCovers(k)
    BY <2>1 DEF CursorOwes, PageOwes
  <2>3. /\ Since(k, began) => Since(k, began)'
        /\ Forgotten(k) => Forgotten(k)'
        /\ Coming(k, page.next) => Since(k, began)' \/ Forgotten(k)' \/ Coming(k, page.next)'
    BY <1>7, <2>1, <2>2, OutsideOwed
  <2>4. KindNow(k)' = KindNow(k)
    BY <2>1 DEF KindNow
  <2> QED BY <2>1, <2>2, <2>3, <2>4 DEF PageCovers
<1> QED BY <1>1, <1>2, <1>3, <1>4, <1>5, <1>6, <1>7, OutsideSteps DEF Next, Pull

-----------------------------------------------------------------------------
(* The theorems                                                            *)

(* The feed begins with nothing under way.                                 *)
LEMMA FeedInit == Init => FeedInv
<1> SUFFICES ASSUME Init PROVE FeedInv
  OBVIOUS
<1>1. TypeOK
  BY InitTypes
<1>2. /\ now = Overlap + 2 /\ row = [i \in Ids |-> [live |-> TRUE, stamp |-> 1]]
      /\ tx = [i \in Ids |-> NoTx] /\ tomb = [i \in Ids |-> 0] /\ cursor = Start
      /\ mirror = [i \in Ids |-> "absent"] /\ page = NoPage /\ began = 0 /\ withheld = {}
  BY DEF Init
<1>3. cursor.ts = 0 /\ cursor.keys = NoKeys
  BY <1>2 DEF Start
<1>4. page.at = 0 /\ page.drops = {} /\ \A i \in Ids : page.rows[i] = "none"
  BY <1>2 DEF NoPage
<1> USE Numbers
<1>5. TimeOK
  BY <1>2, <1>3, <1>4 DEF TimeOK, InPull
<1>6. ShareOK
  BY <1>2, Sharing DEF ShareOK
<1>7. PageOK
  BY <1>2, <1>4 DEF PageOK
<1>8. FreshOK /\ ViewOK /\ FirstOK
  BY <1>2, <1>4 DEF FreshOK, ViewOK, FirstOK
<1>9. CursorOwes /\ PageOwes
  BY <1>2, <1>3, <1>4 DEF CursorOwes, PageOwes, AfterWatermark, Owed, Since
<1> QED BY <1>1, <1>5, <1>6, <1>7, <1>8, <1>9 DEF FeedInv

(* Every step keeps the invariant.                                         *)
LEMMA FeedStep == FeedInv /\ [Next]_vars => FeedInv'
<1> SUFFICES ASSUME FeedInv, [Next]_vars PROVE FeedInv'
  OBVIOUS
<1>1. /\ TypeOK /\ TimeOK /\ ShareOK /\ PageOK /\ FreshOK /\ ViewOK /\ FirstOK
  BY DEF FeedInv
<1>2. TypeOK' /\ TimeOK' /\ ShareOK'
  BY <1>1, TypesStep, TimeStep, ShareStep
<1>3. PageOK' /\ FreshOK' /\ ViewOK' /\ FirstOK'
  BY <1>1, PageStep, FreshStep, ViewStep, FirstStep
<1>4. CursorOwes' /\ PageOwes'
  BY CursorStep, PageOwesStep
<1> QED BY <1>2, <1>3, <1>4 DEF FeedInv

(* The invariant the theorems rest on                                      *)
LEMMA FeedInvariant == Spec => []FeedInv
BY FeedInit, FeedStep, PTL DEF Spec

(* Every variable of the feed keeps its type, whatever is written while    *)
(* GET /sync/delta puts a page together and however often a page is lost.  *)
THEOREM FeedTypes == Spec => []TypeOK
BY FeedInvariant, PTL DEF FeedInv

(* No change is skipped: what deltaPull.ts has not on the phone after a    *)
(* pull that was not too slow lies after the watermark, or the next pull   *)
(* begins anew - for any rows, page sizes, overlap and lifetimes, any      *)
(* writes between the queries and any pages lost.                          *)
THEOREM NothingMissed == Spec => []NothingSkipped
<1>1. FeedInv => NothingSkipped
  <2> SUFFICES ASSUME FeedInv, PullOver, ~slow, NEW i \in Ids \ (buried \union withheld),
                      Differs(i)
               PROVE  Due(i)
    BY DEF NothingSkipped
  <2>1. Lacks(i)
    BY DEF Lacks
  <2>2. AfterWatermark(i)
    BY <2>1 DEF FeedInv, CursorOwes
  <2>3. cursor.ts = 0 => mirror[i] = "absent"
    BY DEF FeedInv, FirstOK, PullOver
  <2> QED BY <2>2, <2>3 DEF AfterWatermark, Due, Differs
<1> QED BY <1>1, FeedInvariant, PTL
====
