------------------------------ MODULE SyncEngine ------------------------------
(***************************************************************************)
(* When the phone syncs (mobile/src/sync/syncEngine.ts): the triggers that *)
(* ask for a cycle, the one cycle at a time with its one follow-up, the    *)
(* retry ladder, and what sign-out tears down.  What a cycle does to rows  *)
(* is PhoneSync; here a cycle only leaves ops waiting or does not, and     *)
(* fails or does not.                                                      *)
(*                                                                         *)
(* A step is what runs between two awaits.  Delays are left out: a timer   *)
(* that is set may fire at any later moment.                               *)
(***************************************************************************)
EXTENDS Naturals

CONSTANTS
  AllowMetered, \* the user's setting for sync on a connection that costs
  MaxAsking     \* bound: questions to the connection policy at a time

ASSUME EngineAssumption ==
  /\ AllowMetered \in BOOLEAN
  /\ MaxAsking \in Nat \ {0}

VARIABLES
  queued,     \* the outbox holds ops to send
  retrying,   \* the outbox holds ops refused for now
  marker,     \* sync_state 'applyFailedAt' is set
  cycle,      \* where the running cycle stands; "none" when running is null
  flushed,    \* what the cycle's flush came to
  followUp,   \* followUpRequested
  status,     \* status.state, by errorKind when it is an error
  ladder,     \* retryTimer is set
  mutation,   \* mutationTimer is set
  asking,     \* automatic triggers waiting for canRunNow
  recent,     \* lastAutoSyncAt is less than AUTO_SYNC_MIN_INTERVAL_MS ago
  front,      \* AppState is not "background"
  connection, \* what the phone is connected by
  session,    \* signed in, wiping before sign-out, signed out (stopped)
  asked,      \* ghost: a cycle was asked for and none began since
  turnedAway  \* ghost: an automatic trigger was dropped, no cycle since

db       == <<queued, retrying, marker>>
running  == <<cycle, flushed, followUp, status, asked>>
triggers == <<ladder, mutation, asking, recent, turnedAway>>
world    == <<front, connection, session>>
vars     == <<db, running, triggers, world>>

Phases   == {"none", "start", "flush", "pull", "finish", "marking"}
Flushes  == {"clean", "retrying", "failed", "missing"}
States   == {"idle", "syncing", "unreachable", "unsupported", "applyFailed"}
Sessions == {"in", "leaving", "out"}

(* canRunNow("sync")                                                       *)
Allowed == connection = "free" \/ (connection = "costly" /\ AllowMetered)

Init ==
  /\ queued = FALSE
  /\ retrying = FALSE
  /\ marker = FALSE
  /\ cycle = "none"
  /\ flushed = "clean"
  /\ followUp = FALSE
  /\ status = "idle"
  /\ ladder = FALSE
  /\ mutation = FALSE
  /\ asking = 1
  /\ recent = TRUE
  /\ front = TRUE
  /\ connection = "free"
  /\ session = "in"
  /\ asked = FALSE
  /\ turnedAway = FALSE

-----------------------------------------------------------------------------
(* Asking for a cycle                                                      *)

requestSync ==
  \/ /\ cycle # "none"
     /\ followUp' = TRUE
     /\ asked' = TRUE
     /\ UNCHANGED <<cycle, flushed, status>>
  \/ /\ cycle = "none"
     /\ session # "out"
     /\ cycle' = "start"
     /\ status' = "syncing"
     /\ asked' = TRUE
     /\ UNCHANGED <<flushed, followUp>>
  \/ /\ cycle = "none"
     /\ session = "out"
     /\ UNCHANGED running

(* An unasked cycle: one each ten seconds, and the policy is asked first.  *)
(* A trigger that comes too early is dropped.                              *)
requestAutoSync ==
  IF recent THEN turnedAway' = TRUE /\ UNCHANGED <<recent, asking>>
  ELSE /\ asking < MaxAsking
       /\ asking' = asking + 1
       /\ recent' = TRUE
       /\ UNCHANGED turnedAway

RateLimitEnds ==
  /\ recent
  /\ recent' = FALSE
  /\ UNCHANGED <<db, running, ladder, mutation, asking, turnedAway, world>>

PolicyAnswers ==
  /\ asking > 0
  /\ asking' = asking - 1
  /\ IF Allowed THEN requestSync /\ turnedAway' = FALSE
     ELSE UNCHANGED running /\ turnedAway' = TRUE
  /\ UNCHANGED <<db, ladder, mutation, recent, world>>

(* scheduleMutationSync, after an enqueue; a delete that cancels ops may   *)
(* leave nothing to send.                                                  *)
Edit ==
  /\ session = "in"
  /\ queued' \in IF queued THEN BOOLEAN ELSE {TRUE}
  /\ mutation' = TRUE
  /\ UNCHANGED <<retrying, marker, running, ladder, asking, recent, turnedAway,
                 world>>

MutationFires ==
  /\ mutation
  /\ asking < MaxAsking
  /\ mutation' = FALSE
  /\ asking' = asking + 1
  /\ UNCHANGED <<db, running, ladder, recent, turnedAway, world>>

LadderFires ==
  /\ ladder
  /\ ladder' = FALSE
  /\ requestSync
  /\ UNCHANGED <<db, mutation, asking, recent, turnedAway, world>>

(* Sync now, and the other screens that ask for a cycle by hand.           *)
UserAsks ==
  /\ session = "in"
  /\ requestSync
  /\ UNCHANGED <<db, triggers, world>>

(* resyncFromScratch, offered while the marker is shown.  Wipe and request *)
(* are one step; PhoneSync takes them apart.                               *)
Resync ==
  /\ session = "in"
  /\ marker
  /\ marker' = FALSE
  /\ requestSync
  /\ UNCHANGED <<queued, retrying, triggers, world>>

-----------------------------------------------------------------------------
(* The ladder                                                              *)

(* Mutant: the guard of sign-out forgotten.                                *)
MayArmAlways == ~ladder

MayArm == session # "out" /\ ~ladder

(* Nothing is armed in the background, where only edges bring sync back.   *)
scheduleBackoffRetry == ladder' = (ladder \/ (MayArm /\ front))

-----------------------------------------------------------------------------
(* A cycle (runCycleOnce) and its end (requestSync)                        *)

(* Mutants: what was refused for now stays so; one cycle and no more; a    *)
(* cycle that succeeded needs no other; errors reported as they come.      *)
RequeuedOnly(q, r)    == q
OneCycleOnly          == FALSE
NeverRetried(result)  == FALSE
ErrorAsIs(kind)       == kind

(* flushOutbox takes up again what is retrying.                            *)
Requeued(q, r) == q \/ r

RunsAgain == followUp

NeedsRetry(result) == result = "retrying"

ErrorKind(kind) == IF kind = "missing" THEN "unsupported" ELSE "unreachable"

(* The catch block: whoever asked for a follow-up is forgotten.            *)
CycleFails(kind) ==
  /\ cycle' = "none"
  /\ followUp' = FALSE
  /\ asked' = FALSE
  /\ status' = ErrorKind(kind)
  /\ IF kind = "missing" THEN UNCHANGED ladder ELSE scheduleBackoffRetry

BeginFlush ==
  /\ cycle = "start"
  /\ asked' = FALSE
  /\ queued' = Requeued(queued, retrying)
  /\ retrying' = (retrying /\ ~queued')
  /\ flushed' = "clean"
  /\ cycle' = IF queued' THEN "flush" ELSE "pull"
  /\ turnedAway' = FALSE
  /\ UNCHANGED <<marker, followUp, status, ladder, mutation, asking, recent, world>>

(* Every op was answered: taken, parked, or refused for now.               *)
FlushDrains ==
  /\ cycle = "flush"
  /\ connection # "none"
  /\ retrying' \in IF queued THEN BOOLEAN ELSE {FALSE}
  /\ queued' = FALSE
  /\ flushed' = IF retrying' THEN "retrying" ELSE "clean"
  /\ cycle' = "pull"
  /\ UNCHANGED <<marker, followUp, status, asked, triggers, world>>

(* No answer, a 5xx, or a server without the route.                        *)
Failures == IF connection = "none" THEN {"failed"} ELSE {"failed", "missing"}

FlushFails ==
  /\ cycle = "flush"
  /\ flushed' \in Failures
  /\ cycle' = "pull"
  /\ UNCHANGED <<db, followUp, status, asked, triggers, world>>

(* The pull runs whatever the flush came to; a row it cannot read is       *)
(* dropped from its page and the marker set.                               *)
PullSucceeds ==
  /\ cycle = "pull"
  /\ connection # "none"
  /\ \/ UNCHANGED marker
     \/ marker' = TRUE
  /\ IF flushed \in {"failed", "missing"}
     THEN CycleFails(flushed) /\ UNCHANGED flushed
     ELSE cycle' = "finish" /\ UNCHANGED <<flushed, followUp, status, asked, ladder>>
  /\ UNCHANGED <<queued, retrying, mutation, asking, recent, turnedAway, world>>

PullFails ==
  /\ cycle = "pull"
  /\ \E kind \in Failures : CycleFails(kind)
  /\ UNCHANGED <<db, flushed, mutation, asking, recent, turnedAway, world>>

(* SyncApplyError: no ladder, and the marker is written in another step.   *)
PageFails ==
  /\ cycle = "pull"
  /\ connection # "none"
  /\ cycle' = "marking"
  /\ followUp' = FALSE
  /\ asked' = FALSE
  /\ UNCHANGED <<db, flushed, status, triggers, world>>

MarkFailure ==
  /\ cycle = "marking"
  /\ marker' = TRUE
  /\ status' = "applyFailed"
  /\ cycle' = "none"
  /\ asked' = FALSE
  /\ UNCHANGED <<queued, retrying, flushed, followUp, triggers, world>>

Finish ==
  /\ cycle = "finish"
  /\ marker' = FALSE
  /\ status' = "idle"
  /\ IF NeedsRetry(flushed) THEN scheduleBackoffRetry ELSE UNCHANGED ladder
  /\ cycle' = IF RunsAgain THEN "start" ELSE "none"
  /\ followUp' = FALSE
  /\ UNCHANGED <<queued, retrying, flushed, asked, mutation, asking, recent,
                 turnedAway, world>>

-----------------------------------------------------------------------------
(* The phone and its user                                                  *)

Background ==
  /\ front
  /\ front' = FALSE
  /\ UNCHANGED <<db, running, triggers, connection, session>>

Foreground ==
  /\ ~front
  /\ front' = TRUE
  /\ IF session = "out" THEN UNCHANGED triggers
     ELSE requestAutoSync /\ UNCHANGED <<ladder, mutation>>
  /\ UNCHANGED <<db, running, connection, session>>

(* subscribeReconnect fires on the edge from no connection to one.         *)
ConnectionChanges ==
  /\ connection' \in {"none", "costly", "free"} \ {connection}
  /\ IF connection # "none" \/ session = "out" THEN UNCHANGED triggers
     ELSE requestAutoSync /\ UNCHANGED <<ladder, mutation>>
  /\ UNCHANGED <<db, running, front, session>>

(* runSignOut: the data goes first, the tokens and the triggers after it.  *)
Wipe ==
  /\ session = "in"
  /\ session' = "leaving"
  /\ queued' = FALSE
  /\ retrying' = FALSE
  /\ marker' = FALSE
  /\ UNCHANGED <<running, triggers, front, connection>>

(* The cleanup registerSyncTriggers returns.                               *)
SignOut ==
  /\ session = "leaving"
  /\ session' = "out"
  /\ followUp' = FALSE
  /\ asked' = FALSE
  /\ ladder' = FALSE
  /\ mutation' = FALSE
  /\ UNCHANGED <<db, cycle, flushed, status, asking, recent, turnedAway, front,
                 connection>>

(* registerSyncTriggers                                                    *)
SignIn ==
  /\ session = "out"
  /\ asking < MaxAsking
  /\ session' = "in"
  /\ followUp' = FALSE
  /\ asked' = (asked /\ cycle = "start")
  /\ asking' = asking + 1
  /\ recent' = TRUE
  /\ UNCHANGED <<db, cycle, flushed, status, ladder, mutation, turnedAway, front,
                 connection>>

(* The app is killed and opened again: module state starts anew, and ops   *)
(* in flight are queued by the next flush.  A kill between the two halves  *)
(* of a sign-out leaves the tokens, so the user is still signed in.        *)
Restart ==
  /\ session' = IF session = "out" THEN "out" ELSE "in"
  /\ cycle' = "none"
  /\ flushed' = "clean"
  /\ followUp' = FALSE
  /\ asked' = FALSE
  /\ status' = "idle"
  /\ ladder' = FALSE
  /\ mutation' = FALSE
  /\ asking' = IF session = "out" THEN 0 ELSE 1
  /\ recent' = (session # "out")
  /\ turnedAway' = FALSE
  /\ front' = TRUE
  /\ UNCHANGED <<db, connection>>

-----------------------------------------------------------------------------
CycleStep ==
  \/ BeginFlush \/ FlushDrains \/ FlushFails \/ PullSucceeds \/ PullFails
  \/ PageFails \/ MarkFailure \/ Finish

TriggerStep == RateLimitEnds \/ PolicyAnswers \/ MutationFires \/ LadderFires

UserStep ==
  \/ Edit \/ UserAsks \/ Resync \/ Background \/ Foreground \/ ConnectionChanges
  \/ Wipe \/ SignOut \/ SignIn \/ Restart

Next == CycleStep \/ TriggerStep \/ UserStep

(* While the app is in front its timers fire and its promises settle.  In  *)
(* the background the system may freeze it; the user owes nothing.         *)
Fairness ==
  /\ WF_vars(front /\ CycleStep)
  /\ WF_vars(front /\ PolicyAnswers)
  /\ WF_vars(front /\ MutationFires)
  /\ WF_vars(front /\ LadderFires)

Spec == Init /\ [][Next]_vars
FairSpec == Spec /\ Fairness

-----------------------------------------------------------------------------
(* Properties                                                              *)

SwitchesOK ==
  /\ queued \in BOOLEAN
  /\ retrying \in BOOLEAN
  /\ marker \in BOOLEAN
  /\ followUp \in BOOLEAN
  /\ ladder \in BOOLEAN
  /\ mutation \in BOOLEAN
  /\ recent \in BOOLEAN
  /\ front \in BOOLEAN
  /\ asked \in BOOLEAN
  /\ turnedAway \in BOOLEAN

PlacesOK ==
  /\ cycle \in Phases
  /\ flushed \in Flushes
  /\ status \in States
  /\ connection \in {"none", "costly", "free"}
  /\ session \in Sessions

(* Every variable keeps its type.                                          *)
TypeOK == SwitchesOK /\ PlacesOK /\ asking \in 0 .. MaxAsking

(* Something will start a cycle, or another one, without the user.         *)
Armed ==
  \/ ladder \/ mutation \/ asking > 0
  \/ cycle = "start" \/ (cycle # "none" /\ followUp)

(* The cycle that runs will still see to the ops that wait: it sends them, *)
(* or arms the ladder when it ends.                                        *)
InHand ==
  \/ cycle = "flush"
  \/ cycle \in {"pull", "finish"} /\ flushed = "retrying"
  \/ cycle = "pull" /\ flushed = "failed"

(* The engine has told the user that waiting will not help.                *)
GaveUp ==
  \/ status \in {"applyFailed", "unsupported"}
  \/ cycle = "marking"
  \/ cycle = "pull" /\ flushed = "missing"

(* While the user is signed in with the app in front, ops that wait are    *)
(* never forgotten: the running cycle has them in hand, something is armed *)
(* to start another, or the engine gave up in front of the user.  Left out *)
(* is a phone on which the rate limit or the policy dropped an automatic   *)
(* trigger since the last cycle began.                                     *)
Attended ==
  (session = "in" /\ front /\ (queued \/ retrying)) =>
    Armed \/ InHand \/ GaveUp \/ turnedAway

(* A cycle asked for begins after the request, however many come during a  *)
(* running one ("a trigger during a running cycle queues exactly one       *)
(* follow-up", syncEngine.ts:122).  Left out are requests made while a     *)
(* cycle runs that then fails, and those sign-out drops.                   *)
RequestsRemembered == asked => cycle = "start" \/ (cycle # "none" /\ followUp)

(* No timer outlives sign-out (syncEngine.ts:313), although the cycle that *)
(* is running then ends, and fails, later.                                 *)
NoTimerOutlivesSignOut == session = "out" => ~ladder /\ ~mutation

(* Once the user rests and the server answers and takes every op, the      *)
(* phone sends what waits.  Left out are a phone in the background or      *)
(* signed out, and those of Attended.                                      *)
Smooth ==
  \/ TriggerStep \/ BeginFlush \/ (FlushDrains /\ ~retrying')
  \/ PullSucceeds \/ MarkFailure \/ Finish

WorkGoesOut ==
  <>[][Smooth]_vars =>
    <>[](\/ ~queued /\ ~retrying
         \/ ~front \/ session # "in" \/ turnedAway
         \/ status \in {"applyFailed", "unsupported"})

=============================================================================
