--------------------------- MODULE SyncEngineProofs ---------------------------
(***************************************************************************)
(* Proofs about SyncEngine: its type invariant, that work is attended to,  *)
(* that requests are remembered, and that sign-out leaves no timer.        *)
(***************************************************************************)
EXTENDS SyncEngine, TLAPS

(* While a cycle runs the status line shows no error.                      *)
NoErrorWhileRunning == cycle # "none" => status \in {"idle", "syncing"}

(* What is inductive: an error shown by an earlier cycle must not count as *)
(* an excuse once another runs, for that one will clear it.                *)
EngineInv ==
  /\ TypeOK
  /\ NoErrorWhileRunning
  /\ Attended
  /\ RequestsRemembered
  /\ NoTimerOutlivesSignOut

(* The initial state satisfies the invariant.                              *)
LEMMA EngineInit == Init => EngineInv
<1> SUFFICES ASSUME Init PROVE EngineInv
  OBVIOUS
<1>1. asking \in 0 .. MaxAsking
  BY EngineAssumption DEF Init
<1>2. TypeOK
  BY <1>1 DEF Init, TypeOK, SwitchesOK, PlacesOK, Phases, Flushes, States, Sessions
<1>3. NoErrorWhileRunning /\ Attended /\ RequestsRemembered /\ NoTimerOutlivesSignOut
  BY DEF Init, NoErrorWhileRunning, Attended, RequestsRemembered,
         NoTimerOutlivesSignOut
<1> QED BY <1>2, <1>3 DEF EngineInv

(* The steps of a cycle keep the invariant.                                *)
LEMMA CycleKeeps == EngineInv /\ CycleStep => EngineInv'
<1> SUFFICES ASSUME EngineInv, CycleStep PROVE EngineInv'
  OBVIOUS
<1> USE DEF EngineInv, db, running, triggers, world
<1>t. SwitchesOK /\ PlacesOK
  BY DEF TypeOK
<1>1. CASE BeginFlush
  <2>1. asking' \in 0 .. MaxAsking
    BY <1>1, EngineAssumption DEF BeginFlush, Requeued, TypeOK
  <2>2. SwitchesOK'
    BY <1>1, <1>t DEF BeginFlush, Requeued, SwitchesOK
  <2>3. PlacesOK'
    BY <1>1, <1>t DEF BeginFlush, Requeued, PlacesOK, Phases, Flushes, States,
                      Sessions
  <2>4. NoErrorWhileRunning' /\ RequestsRemembered' /\ NoTimerOutlivesSignOut'
    BY <1>1 DEF BeginFlush, Requeued, TypeOK, SwitchesOK, PlacesOK,
                NoErrorWhileRunning, RequestsRemembered, NoTimerOutlivesSignOut
  <2>5. Attended'
    BY <1>1 DEF BeginFlush, Requeued, TypeOK, SwitchesOK, PlacesOK,
                NoErrorWhileRunning, Attended, Armed, InHand, GaveUp
  <2> QED BY <2>1, <2>2, <2>3, <2>4, <2>5 DEF TypeOK
<1>2. CASE FlushDrains
  <2>1. asking' \in 0 .. MaxAsking
    BY <1>2, EngineAssumption DEF FlushDrains, TypeOK
  <2>2. SwitchesOK'
    BY <1>2, <1>t DEF FlushDrains, SwitchesOK
  <2>3. PlacesOK'
    BY <1>2, <1>t DEF FlushDrains, PlacesOK, Phases, Flushes, States, Sessions
  <2>4. NoErrorWhileRunning' /\ RequestsRemembered' /\ NoTimerOutlivesSignOut'
    BY <1>2 DEF FlushDrains, TypeOK, SwitchesOK, PlacesOK, NoErrorWhileRunning,
                RequestsRemembered, NoTimerOutlivesSignOut
  <2>5. Attended'
    BY <1>2 DEF FlushDrains, TypeOK, SwitchesOK, PlacesOK, NoErrorWhileRunning,
                Attended, Armed, InHand, GaveUp
  <2> QED BY <2>1, <2>2, <2>3, <2>4, <2>5 DEF TypeOK
<1>3. CASE FlushFails
  <2>1. asking' \in 0 .. MaxAsking
    BY <1>3, EngineAssumption DEF FlushFails, Failures, TypeOK
  <2>2. SwitchesOK'
    BY <1>3, <1>t DEF FlushFails, Failures, SwitchesOK
  <2>3. PlacesOK'
    BY <1>3, <1>t DEF FlushFails, Failures, PlacesOK, Phases, Flushes, States,
                      Sessions
  <2>4. NoErrorWhileRunning' /\ RequestsRemembered' /\ NoTimerOutlivesSignOut'
    BY <1>3 DEF FlushFails, Failures, TypeOK, SwitchesOK, PlacesOK,
                NoErrorWhileRunning, RequestsRemembered, NoTimerOutlivesSignOut
  <2>5. Attended'
    BY <1>3 DEF FlushFails, Failures, TypeOK, SwitchesOK, PlacesOK,
                NoErrorWhileRunning, Attended, Armed, InHand, GaveUp
  <2> QED BY <2>1, <2>2, <2>3, <2>4, <2>5 DEF TypeOK
<1>4. CASE PullSucceeds
  <2>1. asking' \in 0 .. MaxAsking
    BY <1>4, EngineAssumption DEF PullSucceeds, CycleFails, ErrorKind,
                                  scheduleBackoffRetry, MayArm, TypeOK
  <2>2. SwitchesOK'
    BY <1>4, <1>t DEF PullSucceeds, CycleFails, ErrorKind, scheduleBackoffRetry,
                      MayArm, SwitchesOK
  <2>3. PlacesOK'
    BY <1>4, <1>t DEF PullSucceeds, CycleFails, ErrorKind, scheduleBackoffRetry,
                      MayArm, PlacesOK, Phases, Flushes, States, Sessions
  <2>4. NoErrorWhileRunning' /\ RequestsRemembered' /\ NoTimerOutlivesSignOut'
    BY <1>4 DEF PullSucceeds, CycleFails, ErrorKind, scheduleBackoffRetry, MayArm,
                TypeOK, SwitchesOK, PlacesOK, NoErrorWhileRunning,
                RequestsRemembered, NoTimerOutlivesSignOut
  <2>5. Attended'
    BY <1>4 DEF PullSucceeds, CycleFails, ErrorKind, scheduleBackoffRetry, MayArm,
                TypeOK, SwitchesOK, PlacesOK, NoErrorWhileRunning, Attended, Armed,
                InHand, GaveUp
  <2> QED BY <2>1, <2>2, <2>3, <2>4, <2>5 DEF TypeOK
<1>5. CASE PullFails
  <2>1. asking' \in 0 .. MaxAsking
    BY <1>5, EngineAssumption DEF PullFails, Failures, CycleFails, ErrorKind,
                                  scheduleBackoffRetry, MayArm, TypeOK
  <2>2. SwitchesOK'
    BY <1>5, <1>t DEF PullFails, Failures, CycleFails, ErrorKind,
                      scheduleBackoffRetry, MayArm, SwitchesOK
  <2>3. PlacesOK'
    BY <1>5, <1>t DEF PullFails, Failures, CycleFails, ErrorKind,
                      scheduleBackoffRetry, MayArm, PlacesOK, Phases, Flushes,
                      States, Sessions
  <2>4. NoErrorWhileRunning' /\ RequestsRemembered' /\ NoTimerOutlivesSignOut'
    BY <1>5 DEF PullFails, Failures, CycleFails, ErrorKind, scheduleBackoffRetry,
                MayArm, TypeOK, SwitchesOK, PlacesOK, NoErrorWhileRunning,
                RequestsRemembered, NoTimerOutlivesSignOut
  <2>5. Attended'
    BY <1>5 DEF PullFails, Failures, CycleFails, ErrorKind, scheduleBackoffRetry,
                MayArm, TypeOK, SwitchesOK, PlacesOK, NoErrorWhileRunning, Attended,
                Armed, InHand, GaveUp
  <2> QED BY <2>1, <2>2, <2>3, <2>4, <2>5 DEF TypeOK
<1>6. CASE PageFails
  <2>1. asking' \in 0 .. MaxAsking
    BY <1>6, EngineAssumption DEF PageFails, TypeOK
  <2>2. SwitchesOK'
    BY <1>6, <1>t DEF PageFails, SwitchesOK
  <2>3. PlacesOK'
    BY <1>6, <1>t DEF PageFails, PlacesOK, Phases, Flushes, States, Sessions
  <2>4. NoErrorWhileRunning' /\ RequestsRemembered' /\ NoTimerOutlivesSignOut'
    BY <1>6 DEF PageFails, TypeOK, SwitchesOK, PlacesOK, NoErrorWhileRunning,
                RequestsRemembered, NoTimerOutlivesSignOut
  <2>5. Attended'
    BY <1>6 DEF PageFails, TypeOK, SwitchesOK, PlacesOK, NoErrorWhileRunning,
                Attended, Armed, InHand, GaveUp
  <2> QED BY <2>1, <2>2, <2>3, <2>4, <2>5 DEF TypeOK
<1>7. CASE MarkFailure
  <2>1. asking' \in 0 .. MaxAsking
    BY <1>7, EngineAssumption DEF MarkFailure, TypeOK
  <2>2. SwitchesOK'
    BY <1>7, <1>t DEF MarkFailure, SwitchesOK
  <2>3. PlacesOK'
    BY <1>7, <1>t DEF MarkFailure, PlacesOK, Phases, Flushes, States, Sessions
  <2>4. NoErrorWhileRunning' /\ RequestsRemembered' /\ NoTimerOutlivesSignOut'
    BY <1>7 DEF MarkFailure, TypeOK, SwitchesOK, PlacesOK, NoErrorWhileRunning,
                RequestsRemembered, NoTimerOutlivesSignOut
  <2>5. Attended'
    BY <1>7 DEF MarkFailure, TypeOK, SwitchesOK, PlacesOK, NoErrorWhileRunning,
                Attended, Armed, InHand, GaveUp
  <2> QED BY <2>1, <2>2, <2>3, <2>4, <2>5 DEF TypeOK
<1>8. CASE Finish
  <2>1. asking' \in 0 .. MaxAsking
    BY <1>8, EngineAssumption DEF Finish, NeedsRetry, RunsAgain,
                                  scheduleBackoffRetry, MayArm, TypeOK
  <2>2. SwitchesOK'
    BY <1>8, <1>t DEF Finish, NeedsRetry, RunsAgain, scheduleBackoffRetry, MayArm,
                      SwitchesOK
  <2>3. PlacesOK'
    BY <1>8, <1>t DEF Finish, NeedsRetry, RunsAgain, scheduleBackoffRetry, MayArm,
                      PlacesOK, Phases, Flushes, States, Sessions
  <2>4. NoErrorWhileRunning' /\ RequestsRemembered' /\ NoTimerOutlivesSignOut'
    BY <1>8 DEF Finish, NeedsRetry, RunsAgain, scheduleBackoffRetry, MayArm, TypeOK,
                SwitchesOK, PlacesOK, NoErrorWhileRunning, RequestsRemembered,
                NoTimerOutlivesSignOut
  <2>5. Attended'
    BY <1>8 DEF Finish, NeedsRetry, RunsAgain, scheduleBackoffRetry, MayArm, TypeOK,
                SwitchesOK, PlacesOK, NoErrorWhileRunning, Attended, Armed, InHand,
                GaveUp
  <2> QED BY <2>1, <2>2, <2>3, <2>4, <2>5 DEF TypeOK
<1> QED
  BY <1>1, <1>2, <1>3, <1>4, <1>5, <1>6, <1>7, <1>8 DEF CycleStep

(* The triggers keep the invariant.                                        *)
LEMMA TriggersKeep == EngineInv /\ TriggerStep => EngineInv'
<1> SUFFICES ASSUME EngineInv, TriggerStep PROVE EngineInv'
  OBVIOUS
<1> USE DEF EngineInv, db, running, triggers, world
<1>t. SwitchesOK /\ PlacesOK
  BY DEF TypeOK
<1>1. CASE RateLimitEnds
  <2>1. asking' \in 0 .. MaxAsking
    BY <1>1, EngineAssumption DEF RateLimitEnds, TypeOK
  <2>2. SwitchesOK'
    BY <1>1, <1>t DEF RateLimitEnds, SwitchesOK
  <2>3. PlacesOK'
    BY <1>1, <1>t DEF RateLimitEnds, PlacesOK, Phases, Flushes, States, Sessions
  <2>4. NoErrorWhileRunning' /\ RequestsRemembered' /\ NoTimerOutlivesSignOut'
    BY <1>1 DEF RateLimitEnds, TypeOK, SwitchesOK, PlacesOK, NoErrorWhileRunning,
                RequestsRemembered, NoTimerOutlivesSignOut
  <2>5. Attended'
    BY <1>1 DEF RateLimitEnds, TypeOK, SwitchesOK, PlacesOK, NoErrorWhileRunning,
                Attended, Armed, InHand, GaveUp
  <2> QED BY <2>1, <2>2, <2>3, <2>4, <2>5 DEF TypeOK
<1>2. CASE PolicyAnswers
  <2>1. asking' \in 0 .. MaxAsking
    BY <1>2, EngineAssumption DEF PolicyAnswers, requestSync, TypeOK
  <2>2. SwitchesOK'
    BY <1>2, <1>t DEF PolicyAnswers, requestSync, SwitchesOK
  <2>3. PlacesOK'
    BY <1>2, <1>t DEF PolicyAnswers, requestSync, PlacesOK, Phases, Flushes, States,
                      Sessions
  <2>4. NoErrorWhileRunning' /\ RequestsRemembered' /\ NoTimerOutlivesSignOut'
    BY <1>2 DEF PolicyAnswers, requestSync, TypeOK, SwitchesOK, PlacesOK,
                NoErrorWhileRunning, RequestsRemembered, NoTimerOutlivesSignOut
  <2>5. Attended'
    BY <1>2 DEF PolicyAnswers, requestSync, TypeOK, SwitchesOK, PlacesOK,
                NoErrorWhileRunning, Attended, Armed, InHand, GaveUp
  <2> QED BY <2>1, <2>2, <2>3, <2>4, <2>5 DEF TypeOK
<1>3. CASE MutationFires
  <2>1. asking' \in 0 .. MaxAsking
    BY <1>3, EngineAssumption DEF MutationFires, TypeOK
  <2>2. SwitchesOK'
    BY <1>3, <1>t DEF MutationFires, SwitchesOK
  <2>3. PlacesOK'
    BY <1>3, <1>t DEF MutationFires, PlacesOK, Phases, Flushes, States, Sessions
  <2>4. NoErrorWhileRunning' /\ RequestsRemembered' /\ NoTimerOutlivesSignOut'
    BY <1>3 DEF MutationFires, TypeOK, SwitchesOK, PlacesOK, NoErrorWhileRunning,
                RequestsRemembered, NoTimerOutlivesSignOut
  <2>5. Attended'
    BY <1>3 DEF MutationFires, TypeOK, SwitchesOK, PlacesOK, NoErrorWhileRunning,
                Attended, Armed, InHand, GaveUp
  <2> QED BY <2>1, <2>2, <2>3, <2>4, <2>5 DEF TypeOK
<1>4. CASE LadderFires
  <2>1. asking' \in 0 .. MaxAsking
    BY <1>4, EngineAssumption DEF LadderFires, requestSync, TypeOK
  <2>2. SwitchesOK'
    BY <1>4, <1>t DEF LadderFires, requestSync, SwitchesOK
  <2>3. PlacesOK'
    BY <1>4, <1>t DEF LadderFires, requestSync, PlacesOK, Phases, Flushes, States,
                      Sessions
  <2>4. NoErrorWhileRunning' /\ RequestsRemembered' /\ NoTimerOutlivesSignOut'
    BY <1>4 DEF LadderFires, requestSync, TypeOK, SwitchesOK, PlacesOK,
                NoErrorWhileRunning, RequestsRemembered, NoTimerOutlivesSignOut
  <2>5. Attended'
    BY <1>4 DEF LadderFires, requestSync, TypeOK, SwitchesOK, PlacesOK,
                NoErrorWhileRunning, Attended, Armed, InHand, GaveUp
  <2> QED BY <2>1, <2>2, <2>3, <2>4, <2>5 DEF TypeOK
<1> QED
  BY <1>1, <1>2, <1>3, <1>4 DEF TriggerStep

(* The user, the connection and the session keep the invariant.            *)
LEMMA UserKeeps == EngineInv /\ UserStep => EngineInv'
<1> SUFFICES ASSUME EngineInv, UserStep PROVE EngineInv'
  OBVIOUS
<1> USE DEF EngineInv, db, running, triggers, world
<1>t. SwitchesOK /\ PlacesOK
  BY DEF TypeOK
<1>1. CASE Edit
  <2>1. asking' \in 0 .. MaxAsking
    BY <1>1, EngineAssumption DEF Edit, TypeOK
  <2>2. SwitchesOK'
    BY <1>1, <1>t DEF Edit, SwitchesOK
  <2>3. PlacesOK'
    BY <1>1, <1>t DEF Edit, PlacesOK, Phases, Flushes, States, Sessions
  <2>4. NoErrorWhileRunning' /\ RequestsRemembered' /\ NoTimerOutlivesSignOut'
    BY <1>1 DEF Edit, TypeOK, SwitchesOK, PlacesOK, NoErrorWhileRunning,
                RequestsRemembered, NoTimerOutlivesSignOut
  <2>5. Attended'
    BY <1>1 DEF Edit, TypeOK, SwitchesOK, PlacesOK, NoErrorWhileRunning, Attended,
                Armed, InHand, GaveUp
  <2> QED BY <2>1, <2>2, <2>3, <2>4, <2>5 DEF TypeOK
<1>2. CASE UserAsks
  <2>1. asking' \in 0 .. MaxAsking
    BY <1>2, EngineAssumption DEF UserAsks, requestSync, TypeOK
  <2>2. SwitchesOK'
    BY <1>2, <1>t DEF UserAsks, requestSync, SwitchesOK
  <2>3. PlacesOK'
    BY <1>2, <1>t DEF UserAsks, requestSync, PlacesOK, Phases, Flushes, States,
                      Sessions
  <2>4. NoErrorWhileRunning' /\ RequestsRemembered' /\ NoTimerOutlivesSignOut'
    BY <1>2 DEF UserAsks, requestSync, TypeOK, SwitchesOK, PlacesOK,
                NoErrorWhileRunning, RequestsRemembered, NoTimerOutlivesSignOut
  <2>5. Attended'
    BY <1>2 DEF UserAsks, requestSync, TypeOK, SwitchesOK, PlacesOK,
                NoErrorWhileRunning, Attended, Armed, InHand, GaveUp
  <2> QED BY <2>1, <2>2, <2>3, <2>4, <2>5 DEF TypeOK
<1>3. CASE Resync
  <2>1. asking' \in 0 .. MaxAsking
    BY <1>3, EngineAssumption DEF Resync, requestSync, TypeOK
  <2>2. SwitchesOK'
    BY <1>3, <1>t DEF Resync, requestSync, SwitchesOK
  <2>3. PlacesOK'
    BY <1>3, <1>t DEF Resync, requestSync, PlacesOK, Phases, Flushes, States,
                      Sessions
  <2>4. NoErrorWhileRunning' /\ RequestsRemembered' /\ NoTimerOutlivesSignOut'
    BY <1>3 DEF Resync, requestSync, TypeOK, SwitchesOK, PlacesOK,
                NoErrorWhileRunning, RequestsRemembered, NoTimerOutlivesSignOut
  <2>5. Attended'
    BY <1>3 DEF Resync, requestSync, TypeOK, SwitchesOK, PlacesOK,
                NoErrorWhileRunning, Attended, Armed, InHand, GaveUp
  <2> QED BY <2>1, <2>2, <2>3, <2>4, <2>5 DEF TypeOK
<1>4. CASE Background
  <2>1. asking' \in 0 .. MaxAsking
    BY <1>4, EngineAssumption DEF Background, TypeOK
  <2>2. SwitchesOK'
    BY <1>4, <1>t DEF Background, SwitchesOK
  <2>3. PlacesOK'
    BY <1>4, <1>t DEF Background, PlacesOK, Phases, Flushes, States, Sessions
  <2>4. NoErrorWhileRunning' /\ RequestsRemembered' /\ NoTimerOutlivesSignOut'
    BY <1>4 DEF Background, TypeOK, SwitchesOK, PlacesOK, NoErrorWhileRunning,
                RequestsRemembered, NoTimerOutlivesSignOut
  <2>5. Attended'
    BY <1>4 DEF Background, TypeOK, SwitchesOK, PlacesOK, NoErrorWhileRunning,
                Attended, Armed, InHand, GaveUp
  <2> QED BY <2>1, <2>2, <2>3, <2>4, <2>5 DEF TypeOK
<1>5. CASE Foreground
  <2>1. asking' \in 0 .. MaxAsking
    BY <1>5, EngineAssumption DEF Foreground, requestAutoSync, TypeOK
  <2>2. SwitchesOK'
    BY <1>5, <1>t DEF Foreground, requestAutoSync, SwitchesOK
  <2>3. PlacesOK'
    BY <1>5, <1>t DEF Foreground, requestAutoSync, PlacesOK, Phases, Flushes,
                      States, Sessions
  <2>4. NoErrorWhileRunning' /\ RequestsRemembered' /\ NoTimerOutlivesSignOut'
    BY <1>5 DEF Foreground, requestAutoSync, TypeOK, SwitchesOK, PlacesOK,
                NoErrorWhileRunning, RequestsRemembered, NoTimerOutlivesSignOut
  <2>5. Attended'
    BY <1>5 DEF Foreground, requestAutoSync, TypeOK, SwitchesOK, PlacesOK,
                NoErrorWhileRunning, Attended, Armed, InHand, GaveUp
  <2> QED BY <2>1, <2>2, <2>3, <2>4, <2>5 DEF TypeOK
<1>6. CASE ConnectionChanges
  <2>1. asking' \in 0 .. MaxAsking
    BY <1>6, EngineAssumption DEF ConnectionChanges, requestAutoSync, TypeOK
  <2>2. SwitchesOK'
    BY <1>6, <1>t DEF ConnectionChanges, requestAutoSync, SwitchesOK
  <2>3. PlacesOK'
    BY <1>6, <1>t DEF ConnectionChanges, requestAutoSync, PlacesOK, Phases, Flushes,
                      States, Sessions
  <2>4. NoErrorWhileRunning' /\ RequestsRemembered' /\ NoTimerOutlivesSignOut'
    BY <1>6 DEF ConnectionChanges, requestAutoSync, TypeOK, SwitchesOK, PlacesOK,
                NoErrorWhileRunning, RequestsRemembered, NoTimerOutlivesSignOut
  <2>5. Attended'
    BY <1>6 DEF ConnectionChanges, requestAutoSync, TypeOK, SwitchesOK, PlacesOK,
                NoErrorWhileRunning, Attended, Armed, InHand, GaveUp
  <2> QED BY <2>1, <2>2, <2>3, <2>4, <2>5 DEF TypeOK
<1>7. CASE Wipe
  <2>1. asking' \in 0 .. MaxAsking
    BY <1>7, EngineAssumption DEF Wipe, TypeOK
  <2>2. SwitchesOK'
    BY <1>7, <1>t DEF Wipe, SwitchesOK
  <2>3. PlacesOK'
    BY <1>7, <1>t DEF Wipe, PlacesOK, Phases, Flushes, States, Sessions
  <2>4. NoErrorWhileRunning' /\ RequestsRemembered' /\ NoTimerOutlivesSignOut'
    BY <1>7 DEF Wipe, TypeOK, SwitchesOK, PlacesOK, NoErrorWhileRunning,
                RequestsRemembered, NoTimerOutlivesSignOut
  <2>5. Attended'
    BY <1>7 DEF Wipe, TypeOK, SwitchesOK, PlacesOK, NoErrorWhileRunning, Attended,
                Armed, InHand, GaveUp
  <2> QED BY <2>1, <2>2, <2>3, <2>4, <2>5 DEF TypeOK
<1>8. CASE SignOut
  <2>1. asking' \in 0 .. MaxAsking
    BY <1>8, EngineAssumption DEF SignOut, TypeOK
  <2>2. SwitchesOK'
    BY <1>8, <1>t DEF SignOut, SwitchesOK
  <2>3. PlacesOK'
    BY <1>8, <1>t DEF SignOut, PlacesOK, Phases, Flushes, States, Sessions
  <2>4. NoErrorWhileRunning' /\ RequestsRemembered' /\ NoTimerOutlivesSignOut'
    BY <1>8 DEF SignOut, TypeOK, SwitchesOK, PlacesOK, NoErrorWhileRunning,
                RequestsRemembered, NoTimerOutlivesSignOut
  <2>5. Attended'
    BY <1>8 DEF SignOut, TypeOK, SwitchesOK, PlacesOK, NoErrorWhileRunning,
                Attended, Armed, InHand, GaveUp
  <2> QED BY <2>1, <2>2, <2>3, <2>4, <2>5 DEF TypeOK
<1>9. CASE SignIn
  <2>1. asking' \in 0 .. MaxAsking
    BY <1>9, EngineAssumption DEF SignIn, TypeOK
  <2>2. SwitchesOK'
    BY <1>9, <1>t DEF SignIn, SwitchesOK
  <2>3. PlacesOK'
    BY <1>9, <1>t DEF SignIn, PlacesOK, Phases, Flushes, States, Sessions
  <2>4. NoErrorWhileRunning' /\ RequestsRemembered' /\ NoTimerOutlivesSignOut'
    BY <1>9 DEF SignIn, TypeOK, SwitchesOK, PlacesOK, NoErrorWhileRunning,
                RequestsRemembered, NoTimerOutlivesSignOut
  <2>5. Attended'
    BY <1>9 DEF SignIn, TypeOK, SwitchesOK, PlacesOK, NoErrorWhileRunning, Attended,
                Armed, InHand, GaveUp
  <2> QED BY <2>1, <2>2, <2>3, <2>4, <2>5 DEF TypeOK
<1>10. CASE Restart
  <2>1. asking' \in 0 .. MaxAsking
    BY <1>10, EngineAssumption DEF Restart, TypeOK
  <2>2. SwitchesOK'
    BY <1>10, <1>t DEF Restart, SwitchesOK
  <2>3. PlacesOK'
    BY <1>10, <1>t DEF Restart, PlacesOK, Phases, Flushes, States, Sessions
  <2>4. NoErrorWhileRunning' /\ RequestsRemembered' /\ NoTimerOutlivesSignOut'
    BY <1>10 DEF Restart, TypeOK, SwitchesOK, PlacesOK, NoErrorWhileRunning,
                 RequestsRemembered, NoTimerOutlivesSignOut
  <2>5. Attended'
    BY <1>10 DEF Restart, TypeOK, SwitchesOK, PlacesOK, NoErrorWhileRunning,
                 Attended, Armed, InHand, GaveUp
  <2> QED BY <2>1, <2>2, <2>3, <2>4, <2>5 DEF TypeOK
<1> QED
  BY <1>1, <1>2, <1>3, <1>4, <1>5, <1>6, <1>7, <1>8, <1>9, <1>10 DEF UserStep

(* The invariant holds in every reachable state.                           *)
THEOREM EngineInvariant == Spec => []EngineInv
<1>1. EngineInv /\ UNCHANGED vars => EngineInv'
  BY DEF vars, EngineInv, TypeOK, SwitchesOK, PlacesOK, NoErrorWhileRunning,
         Attended, Armed, InHand,
         GaveUp, RequestsRemembered, NoTimerOutlivesSignOut, db, running, triggers,
         world
<1>2. EngineInv /\ [Next]_vars => EngineInv'
  BY <1>1, CycleKeeps, TriggersKeep, UserKeeps DEF Next
<1> QED BY EngineInit, <1>2, PTL DEF Spec

(* Every variable of the engine keeps its type.                            *)
THEOREM EngineTypes == Spec => []TypeOK
<1>1. EngineInv => TypeOK
  BY DEF EngineInv
<1> QED BY EngineInvariant, <1>1, PTL

(* While the user is signed in with the app in front, ops that wait are in *)
(* the hands of a cycle, or something is armed to start one, or the engine *)
(* gave up in front of the user, or a trigger was dropped by a limit.      *)
THEOREM WorkIsAttended == Spec => []Attended
<1>1. EngineInv => Attended
  BY DEF EngineInv
<1> QED BY EngineInvariant, <1>1, PTL

(* A cycle asked for begins after the request, or is still sure to.        *)
THEOREM NoRequestForgotten == Spec => []RequestsRemembered
<1>1. EngineInv => RequestsRemembered
  BY DEF EngineInv
<1> QED BY EngineInvariant, <1>1, PTL

(* No timer of the engine outlives sign-out.                               *)
THEOREM SignOutIsQuiet == Spec => []NoTimerOutlivesSignOut
<1>1. EngineInv => NoTimerOutlivesSignOut
  BY DEF EngineInv
<1> QED BY EngineInvariant, <1>1, PTL

=============================================================================
