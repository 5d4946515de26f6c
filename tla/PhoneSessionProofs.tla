------------------------- MODULE PhoneSessionProofs -------------------------
(***************************************************************************)
(* Proofs about PhoneSession, for any number of accounts, tokens, callers  *)
(* and refreshes under way: its types, that nobody waits for a refresh     *)
(* that is not at work, and that a sign-out is not undone.                 *)
(***************************************************************************)
EXTENDS PhoneSession, TLAPS

(* A refresh at work was begun for a record.                               *)
HeldOK == \A f \in Flights : flight[f].at # "idle" => flight[f].from # None

(* Signed out, no refresh is past its look with a write still to land.     *)
NonePoised == ended /\ ~raced => \A f \in Flights : ~Poised(f)

SessionInv ==
  /\ TypeOK
  /\ HeldOK
  /\ NobodyWaitsInVain
  /\ SignedOutStays
  /\ NonePoised

(* The initial state satisfies the invariant.                              *)
LEMMA SessionInit == Init => SessionInv
<1> SUFFICES ASSUME Init PROVE SessionInv
  OBVIOUS
<1>1. RecordsOK
  BY DEF Init, RecordsOK, NoSignIn, NoSignOut
<1>2. FlightsOK
  BY DEF Init, FlightsOK, NoFlight, FlightPlaces
<1>3. AnswersOK /\ SwitchesOK
  BY DEF Init, AnswersOK, SwitchesOK
<1>4. HeldOK /\ NonePoised
  BY DEF Init, HeldOK, NonePoised, Poised, NoFlight
<1>5. NobodyWaitsInVain /\ SignedOutStays
  BY DEF Init, NobodyWaitsInVain, Waiting, SignedOutStays
<1> QED BY <1>1, <1>2, <1>3, <1>4, <1>5 DEF SessionInv, TypeOK

(* Answering callers keeps the types of what it touches.                   *)
LEMMA SettleTypes ==
  ASSUME TypeOK, NEW answer, Settle(answer)
  PROVE  AnswersOK' /\ strange' \in BOOLEAN
<1>1. screen' \in {"loading", "in", "out"}
  BY DEF TypeOK, Settle, ScreensAfter, AnswersOK
<1>2. caller' \in [Callers -> SUBSET Users]
  BY DEF TypeOK, Settle, AnswersOK
<1>3. strange' \in BOOLEAN
  BY Zenon DEF TypeOK, Settle, SwitchesOK
<1> QED BY <1>1, <1>2, <1>3 DEF AnswersOK

(* So does the end of a refresh, whether or not callers still share it.    *)
LEMMA LandTypes ==
  ASSUME TypeOK, NEW f \in Flights, NEW answer, Land(f, answer)
  PROVE  FlightsOK' /\ AnswersOK' /\ strange' \in BOOLEAN
<1>1. AnswersOK' /\ strange' \in BOOLEAN
  BY SettleTypes DEF TypeOK, Land, AnswersOK, SwitchesOK
<1>2. FlightsOK'
  BY DEF TypeOK, Land, Freed, FlightsOK, NoFlight, FlightPlaces
<1> QED BY <1>1, <1>2

(* Every step keeps the types: a refresh that stores or compares has a     *)
(* record to do so with.                                                   *)
LEMMA TypesKept == TypeOK /\ HeldOK /\ [Next]_vars => TypeOK'
<1> SUFFICES ASSUME TypeOK, HeldOK, [Next]_vars PROVE TypeOK'
  OBVIOUS
<1> USE DEF ui, ghost
<1>1. ASSUME NEW c \in Callers, GetStored(c) PROVE TypeOK'
  <2>1. RecordsOK'
    BY <1>1, SessionAssumption DEF GetStored, MayAsk, TypeOK, RecordsOK,
           FlightsOK, Sessions, HeldOK
  <2>2. FlightsOK'
    BY <1>1, SessionAssumption DEF GetStored, MayAsk, TypeOK, RecordsOK,
           FlightsOK, FlightPlaces, Sessions
  <2>3. AnswersOK'
    BY <1>1 DEF GetStored, MayAsk, ScreensAfter, RecordsOK, Sessions, TypeOK,
           AnswersOK
  <2>4. SwitchesOK'
    BY <1>1 DEF GetStored, MayAsk, TypeOK, SwitchesOK
  <2> QED BY <2>1, <2>2, <2>3, <2>4 DEF TypeOK
<1>2. ASSUME NEW c \in Callers, GetRefreshed(c) PROVE TypeOK'
  <2>1. RecordsOK'
    BY <1>2, SessionAssumption DEF GetRefreshed, MayAsk, NoFlight, TypeOK,
           RecordsOK, FlightsOK, Sessions, HeldOK
  <2>2. FlightsOK'
    BY <1>2, SessionAssumption DEF GetRefreshed, MayAsk, NoFlight, TypeOK,
           RecordsOK, FlightsOK, FlightPlaces, Sessions
  <2>3. AnswersOK'
    BY <1>2 DEF GetRefreshed, MayAsk, NoFlight, ScreensAfter, RecordsOK,
           Sessions, TypeOK, AnswersOK
  <2>4. SwitchesOK'
    BY <1>2 DEF GetRefreshed, MayAsk, NoFlight, TypeOK, SwitchesOK
  <2> QED BY <2>1, <2>2, <2>3, <2>4 DEF TypeOK
<1>3. ASSUME NEW f \in Flights, Granted(f) PROVE TypeOK'
  <2>1. RecordsOK'
    BY <1>3, SessionAssumption DEF Granted, FlightKeeps, Mintable, TypeOK,
           RecordsOK, FlightsOK, Sessions, HeldOK
  <2>2. FlightsOK'
    BY <1>3, SessionAssumption DEF Granted, FlightKeeps, Mintable, TypeOK,
           RecordsOK, FlightsOK, FlightPlaces, Sessions
  <2>3. AnswersOK'
    BY <1>3 DEF Granted, FlightKeeps, Mintable, TypeOK, AnswersOK
  <2>4. SwitchesOK'
    BY <1>3 DEF Granted, FlightKeeps, Mintable, TypeOK, SwitchesOK
  <2> QED BY <2>1, <2>2, <2>3, <2>4 DEF TypeOK
<1>4. ASSUME NEW f \in Flights, Refused(f) PROVE TypeOK'
  <2>1. RecordsOK'
    BY <1>4, SessionAssumption DEF Refused, FlightKeeps, Go, TypeOK,
           RecordsOK, FlightsOK, Sessions, HeldOK
  <2>2. FlightsOK'
    BY <1>4, SessionAssumption DEF Refused, FlightKeeps, Go, TypeOK,
           RecordsOK, FlightsOK, FlightPlaces, Sessions
  <2>3. AnswersOK'
    BY <1>4 DEF Refused, FlightKeeps, Go, TypeOK, AnswersOK
  <2>4. SwitchesOK'
    BY <1>4 DEF Refused, FlightKeeps, Go, TypeOK, SwitchesOK
  <2> QED BY <2>1, <2>2, <2>3, <2>4 DEF TypeOK
<1>5. ASSUME NEW f \in Flights, Failed(f) PROVE TypeOK'
  <2>1. RecordsOK'
    BY <1>5, SessionAssumption DEF Failed, Land, Settle, TypeOK, RecordsOK,
           FlightsOK, Sessions, HeldOK
  <2>2. FlightsOK' /\ AnswersOK' /\ strange' \in BOOLEAN
    BY <1>5, LandTypes DEF Failed
  <2>3. SwitchesOK'
    BY <1>5, <2>2 DEF Failed, TypeOK, SwitchesOK
  <2> QED BY <2>1, <2>2, <2>3 DEF TypeOK
<1>6. ASSUME NEW f \in Flights, Look(f) PROVE TypeOK'
  <2>1. RecordsOK'
    BY <1>6, SessionAssumption DEF Look, Go, Same, Land, Settle, TypeOK,
           RecordsOK, FlightsOK, Sessions, HeldOK
  <2>2. FlightsOK' /\ AnswersOK' /\ strange' \in BOOLEAN
    BY <1>6, LandTypes DEF Look, Go, Same, TypeOK, FlightsOK, FlightPlaces,
           AnswersOK, SwitchesOK
  <2>3. SwitchesOK'
    BY <1>6, <2>2 DEF Look, Go, Same, TypeOK, SwitchesOK
  <2> QED BY <2>1, <2>2, <2>3 DEF TypeOK
<1>7. ASSUME NEW f \in Flights, Blank(f) PROVE TypeOK'
  <2>1. RecordsOK'
    BY <1>7, SessionAssumption DEF Blank, Go, Touched, FlightKeeps, TypeOK,
           RecordsOK, FlightsOK, Sessions, HeldOK
  <2>2. FlightsOK'
    BY <1>7, SessionAssumption DEF Blank, Go, Touched, FlightKeeps, TypeOK,
           RecordsOK, FlightsOK, FlightPlaces, Sessions
  <2>3. AnswersOK'
    BY <1>7 DEF Blank, Go, Touched, FlightKeeps, TypeOK, AnswersOK
  <2>4. SwitchesOK'
    BY <1>7 DEF Blank, Go, Touched, FlightKeeps, TypeOK, SwitchesOK
  <2> QED BY <2>1, <2>2, <2>3, <2>4 DEF TypeOK
<1>8. ASSUME NEW f \in Flights, Put(f) PROVE TypeOK'
  <2>1. RecordsOK'
    BY <1>8, SessionAssumption DEF Put, Touched, Land, Settle, TypeOK,
           RecordsOK, FlightsOK, Sessions, HeldOK
  <2>2. FlightsOK' /\ AnswersOK' /\ strange' \in BOOLEAN
    BY <1>8, LandTypes DEF Put, Touched
  <2>3. SwitchesOK'
    BY <1>8, <2>2 DEF Put, Touched, TypeOK, SwitchesOK
  <2> QED BY <2>1, <2>2, <2>3 DEF TypeOK
<1>9. ASSUME NEW f \in Flights, LookRefused(f) PROVE TypeOK'
  <2>1. RecordsOK'
    BY <1>9, SessionAssumption DEF LookRefused, Go, Same, Land, Settle,
           TypeOK, RecordsOK, FlightsOK, Sessions, HeldOK
  <2>2. FlightsOK' /\ AnswersOK' /\ strange' \in BOOLEAN
    BY <1>9, LandTypes DEF LookRefused, Go, Same, TypeOK, FlightsOK,
           FlightPlaces, AnswersOK, SwitchesOK
  <2>3. SwitchesOK'
    BY <1>9, <2>2 DEF LookRefused, Go, Same, TypeOK, SwitchesOK
  <2> QED BY <2>1, <2>2, <2>3 DEF TypeOK
<1>10. ASSUME NEW f \in Flights, Clear(f) PROVE TypeOK'
  <2>1. RecordsOK'
    BY <1>10, SessionAssumption DEF Clear, Touched, Land, Settle, TypeOK,
           RecordsOK, FlightsOK, Sessions, HeldOK
  <2>2. FlightsOK' /\ AnswersOK' /\ strange' \in BOOLEAN
    BY <1>10, LandTypes DEF Clear, Touched, TypeOK, FlightsOK, FlightPlaces,
           AnswersOK, SwitchesOK
  <2>3. SwitchesOK'
    BY <1>10, <2>2 DEF Clear, Touched, TypeOK, SwitchesOK
  <2> QED BY <2>1, <2>2, <2>3 DEF TypeOK
<1>11. ASSUME NEW f \in Flights, TimeIsUp(f) PROVE TypeOK'
  <2>1. RecordsOK'
    BY <1>11, SessionAssumption DEF TimeIsUp, Settle, Freed, TypeOK,
           RecordsOK, FlightsOK, Sessions, HeldOK
  <2>2. FlightsOK'
    BY <1>11, SessionAssumption DEF TimeIsUp, Settle, Freed, NoFlight, TypeOK,
           RecordsOK, FlightsOK, FlightPlaces, Sessions
  <2>3. AnswersOK' /\ SwitchesOK'
    BY <1>11, SettleTypes DEF TimeIsUp, TypeOK, SwitchesOK
  <2> QED BY <2>1, <2>2, <2>3 DEF TypeOK
<1>12. ASSUME NEW u \in Users, SignInTokens(u) PROVE TypeOK'
  <2>1. RecordsOK'
    BY <1>12, SessionAssumption DEF SignInTokens, UiKeeps, Mintable, NoSignIn,
           TypeOK, RecordsOK, FlightsOK, Sessions, HeldOK
  <2>2. FlightsOK'
    BY <1>12, SessionAssumption DEF SignInTokens, UiKeeps, Mintable, NoSignIn,
           TypeOK, RecordsOK, FlightsOK, FlightPlaces, Sessions
  <2>3. AnswersOK'
    BY <1>12 DEF SignInTokens, UiKeeps, Mintable, NoSignIn, TypeOK, AnswersOK
  <2>4. SwitchesOK'
    BY <1>12 DEF SignInTokens, UiKeeps, Mintable, NoSignIn, TypeOK, SwitchesOK
  <2> QED BY <2>1, <2>2, <2>3, <2>4 DEF TypeOK
<1>13. CASE Identify
  <2>1. RecordsOK'
    BY <1>13, SessionAssumption DEF Identify, UiKeeps, TypeOK, RecordsOK,
           FlightsOK, Sessions, HeldOK
  <2>2. FlightsOK'
    BY <1>13, SessionAssumption DEF Identify, UiKeeps, TypeOK, RecordsOK,
           FlightsOK, FlightPlaces, Sessions
  <2>3. AnswersOK'
    BY <1>13 DEF Identify, UiKeeps, TypeOK, AnswersOK
  <2>4. SwitchesOK'
    BY <1>13 DEF Identify, UiKeeps, TypeOK, SwitchesOK
  <2> QED BY <2>1, <2>2, <2>3, <2>4 DEF TypeOK
<1>14. CASE CommitBlank
  <2>1. RecordsOK'
    BY <1>14, SessionAssumption DEF CommitBlank, UiKeeps, Touched, TypeOK,
           RecordsOK, FlightsOK, Sessions, HeldOK
  <2>2. FlightsOK'
    BY <1>14, SessionAssumption DEF CommitBlank, UiKeeps, Touched, TypeOK,
           RecordsOK, FlightsOK, FlightPlaces, Sessions
  <2>3. AnswersOK'
    BY <1>14 DEF CommitBlank, UiKeeps, Touched, TypeOK, AnswersOK
  <2>4. SwitchesOK'
    BY <1>14 DEF CommitBlank, UiKeeps, Touched, TypeOK, SwitchesOK
  <2> QED BY <2>1, <2>2, <2>3, <2>4 DEF TypeOK
<1>15. CASE CommitPut
  <2>1. RecordsOK'
    BY <1>15, SessionAssumption DEF CommitPut, UiKeeps, Touched, NoSignIn,
           TypeOK, RecordsOK, FlightsOK, Sessions, HeldOK
  <2>2. FlightsOK'
    BY <1>15, SessionAssumption DEF CommitPut, UiKeeps, Touched, NoSignIn,
           TypeOK, RecordsOK, FlightsOK, FlightPlaces, Sessions
  <2>3. AnswersOK'
    BY <1>15 DEF CommitPut, UiKeeps, Touched, NoSignIn, TypeOK, AnswersOK
  <2>4. SwitchesOK'
    BY <1>15 DEF CommitPut, UiKeeps, Touched, NoSignIn, TypeOK, SwitchesOK
  <2> QED BY <2>1, <2>2, <2>3, <2>4 DEF TypeOK
<1>16. CASE SignOut
  <2>1. RecordsOK'
    BY <1>16, SessionAssumption DEF SignOut, UiKeeps, TypeOK, RecordsOK,
           FlightsOK, Sessions, HeldOK
  <2>2. FlightsOK'
    BY <1>16, SessionAssumption DEF SignOut, UiKeeps, TypeOK, RecordsOK,
           FlightsOK, FlightPlaces, Sessions
  <2>3. AnswersOK'
    BY <1>16 DEF SignOut, UiKeeps, TypeOK, AnswersOK
  <2>4. SwitchesOK'
    BY <1>16 DEF SignOut, UiKeeps, TypeOK, SwitchesOK
  <2> QED BY <2>1, <2>2, <2>3, <2>4 DEF TypeOK
<1>17. CASE signOutLocally
  <2>1. RecordsOK'
    BY <1>17, SessionAssumption DEF signOutLocally, UiKeeps, Touched, TypeOK,
           RecordsOK, FlightsOK, Sessions, HeldOK
  <2>2. FlightsOK'
    BY <1>17, SessionAssumption DEF signOutLocally, UiKeeps, Touched, TypeOK,
           RecordsOK, FlightsOK, FlightPlaces, Sessions
  <2>3. AnswersOK'
    BY <1>17 DEF signOutLocally, UiKeeps, Touched, TypeOK, AnswersOK
  <2>4. SwitchesOK'
    BY <1>17 DEF signOutLocally, UiKeeps, Touched, TypeOK, SwitchesOK
  <2> QED BY <2>1, <2>2, <2>3, <2>4 DEF TypeOK
<1>18. CASE endProviderSession
  <2>1. RecordsOK'
    BY <1>18, SessionAssumption DEF endProviderSession, UiKeeps, NoSignOut,
           TypeOK, RecordsOK, FlightsOK, Sessions, HeldOK
  <2>2. FlightsOK'
    BY <1>18, SessionAssumption DEF endProviderSession, UiKeeps, NoSignOut,
           TypeOK, RecordsOK, FlightsOK, FlightPlaces, Sessions
  <2>3. AnswersOK'
    BY <1>18 DEF endProviderSession, UiKeeps, NoSignOut, TypeOK, AnswersOK
  <2>4. SwitchesOK'
    BY <1>18 DEF endProviderSession, UiKeeps, NoSignOut, TypeOK, SwitchesOK
  <2> QED BY <2>1, <2>2, <2>3, <2>4 DEF TypeOK
<1>19. CASE Revoke
  <2>1. RecordsOK'
    BY <1>19, SessionAssumption DEF Revoke, TypeOK, RecordsOK, FlightsOK,
           Sessions, HeldOK
  <2>2. FlightsOK'
    BY <1>19, SessionAssumption DEF Revoke, TypeOK, RecordsOK, FlightsOK,
           FlightPlaces, Sessions
  <2>3. AnswersOK'
    BY <1>19 DEF Revoke, TypeOK, AnswersOK
  <2>4. SwitchesOK'
    BY <1>19 DEF Revoke, TypeOK, SwitchesOK
  <2> QED BY <2>1, <2>2, <2>3, <2>4 DEF TypeOK
<1>20. CASE Restart
  <2>1. RecordsOK'
    BY <1>20, SessionAssumption DEF Restart, NoFlight, NoSignIn, NoSignOut,
           TypeOK, RecordsOK, FlightsOK, Sessions, HeldOK
  <2>2. FlightsOK'
    BY <1>20, SessionAssumption DEF Restart, NoFlight, NoSignIn, NoSignOut,
           TypeOK, RecordsOK, FlightsOK, FlightPlaces, Sessions
  <2>3. AnswersOK'
    BY <1>20 DEF Restart, NoFlight, NoSignIn, NoSignOut, TypeOK, AnswersOK
  <2>4. SwitchesOK'
    BY <1>20 DEF Restart, NoFlight, NoSignIn, NoSignOut, TypeOK, SwitchesOK
  <2> QED BY <2>1, <2>2, <2>3, <2>4 DEF TypeOK
<1>21. CASE UNCHANGED vars
  BY <1>21 DEF vars, TypeOK, RecordsOK, FlightsOK, AnswersOK, SwitchesOK
<1> QED BY <1>1, <1>2, <1>3, <1>4, <1>5, <1>6, <1>7, <1>8, <1>9, <1>10, <1>11,
       <1>12, <1>13, <1>14, <1>15, <1>16, <1>17, <1>18, <1>19, <1>20, <1>21
       DEF Next, Asking, Working

(* A flight is only begun for a record, and keeps it to its end.           *)
LEMMA HeldKept == TypeOK /\ HeldOK /\ [Next]_vars => HeldOK'
<1> SUFFICES ASSUME TypeOK, HeldOK, [Next]_vars PROVE HeldOK'
  OBVIOUS
<1> USE DEF TypeOK, FlightsOK, HeldOK
<1>1. ASSUME NEW c \in Callers, GetStored(c) PROVE HeldOK'
  BY <1>1 DEF GetStored, MayAsk, ui
<1>2. ASSUME NEW c \in Callers, GetRefreshed(c) PROVE HeldOK'
  BY <1>2 DEF GetRefreshed, MayAsk, NoFlight, ui
<1>3. ASSUME NEW f \in Flights, Granted(f) PROVE HeldOK'
  BY <1>3 DEF Granted, FlightKeeps, Mintable, ui
<1>4. ASSUME NEW f \in Flights, Refused(f) PROVE HeldOK'
  BY <1>4 DEF Refused, FlightKeeps, Go, ui
<1>5. ASSUME NEW f \in Flights, Failed(f) PROVE HeldOK'
  BY <1>5 DEF Failed, Land, Settle, Freed, NoFlight, ui
<1>6. ASSUME NEW f \in Flights, Look(f) PROVE HeldOK'
  BY <1>6 DEF Look, Go, Same, Land, Settle, Freed, NoFlight, ui
<1>7. ASSUME NEW f \in Flights, Blank(f) PROVE HeldOK'
  BY <1>7 DEF Blank, Go, Touched, FlightKeeps, ui
<1>8. ASSUME NEW f \in Flights, Put(f) PROVE HeldOK'
  BY <1>8 DEF Put, Touched, Land, Settle, Freed, NoFlight, ui
<1>9. ASSUME NEW f \in Flights, LookRefused(f) PROVE HeldOK'
  BY <1>9 DEF LookRefused, Go, Same, Land, Settle, Freed, NoFlight, ui
<1>10. ASSUME NEW f \in Flights, Clear(f) PROVE HeldOK'
  BY <1>10 DEF Clear, Touched, Land, Settle, Freed, NoFlight, ui
<1>11. ASSUME NEW f \in Flights, TimeIsUp(f) PROVE HeldOK'
  BY <1>11 DEF TimeIsUp, Land, Settle, Freed, NoFlight, ui
<1>12. ASSUME NEW u \in Users, SignInTokens(u) PROVE HeldOK'
  BY <1>12 DEF SignInTokens, UiKeeps, Mintable, NoSignIn, ui
<1>13. CASE Identify
  BY <1>13 DEF Identify, UiKeeps, ui
<1>14. CASE CommitBlank
  BY <1>14 DEF CommitBlank, UiKeeps, Touched, ui
<1>15. CASE CommitPut
  BY <1>15 DEF CommitPut, UiKeeps, Touched, NoSignIn, ui
<1>16. CASE SignOut
  BY <1>16 DEF SignOut, UiKeeps, ui
<1>17. CASE signOutLocally
  BY <1>17 DEF signOutLocally, UiKeeps, Touched, ui
<1>18. CASE endProviderSession
  BY <1>18 DEF endProviderSession, UiKeeps, NoSignOut, ui
<1>19. CASE Revoke
  BY <1>19 DEF Revoke, ui
<1>20. CASE Restart
  BY <1>20 DEF Restart, NoFlight, NoSignIn, NoSignOut
<1>21. CASE UNCHANGED vars
  BY <1>21 DEF vars, ui, ghost
<1> QED BY <1>1, <1>2, <1>3, <1>4, <1>5, <1>6, <1>7, <1>8, <1>9, <1>10, <1>11,
       <1>12, <1>13, <1>14, <1>15, <1>16, <1>17, <1>18, <1>19, <1>20, <1>21
       DEF Next, Asking, Working

(* Who waits, waits for the refresh in the slot, which is at work.         *)
LEMMA WaitKept == TypeOK /\ NobodyWaitsInVain /\ [Next]_vars => NobodyWaitsInVain'
<1> SUFFICES ASSUME TypeOK, NobodyWaitsInVain, [Next]_vars PROVE NobodyWaitsInVain'
  OBVIOUS
<1> USE SessionAssumption DEF TypeOK, FlightsOK, AnswersOK, NobodyWaitsInVain, Waiting
<1>1. ASSUME NEW c \in Callers, GetStored(c) PROVE NobodyWaitsInVain'
  BY <1>1 DEF GetStored, MayAsk, ui
<1>2. ASSUME NEW c \in Callers, GetRefreshed(c) PROVE NobodyWaitsInVain'
  BY <1>2 DEF GetRefreshed, MayAsk, NoFlight, ui
<1>3. ASSUME NEW f \in Flights, Granted(f) PROVE NobodyWaitsInVain'
  BY <1>3 DEF Granted, FlightKeeps, Mintable, ui
<1>4. ASSUME NEW f \in Flights, Refused(f) PROVE NobodyWaitsInVain'
  BY <1>4 DEF Refused, FlightKeeps, Go, ui
<1>5. ASSUME NEW f \in Flights, Failed(f) PROVE NobodyWaitsInVain'
  BY <1>5 DEF Failed, Land, Settle, Freed, NoFlight, ui
<1>6. ASSUME NEW f \in Flights, Look(f) PROVE NobodyWaitsInVain'
  BY <1>6 DEF Look, Go, Same, Land, Settle, Freed, NoFlight, ui
<1>7. ASSUME NEW f \in Flights, Blank(f) PROVE NobodyWaitsInVain'
  BY <1>7 DEF Blank, Go, Touched, FlightKeeps, ui
<1>8. ASSUME NEW f \in Flights, Put(f) PROVE NobodyWaitsInVain'
  BY <1>8 DEF Put, Touched, Land, Settle, Freed, NoFlight, ui
<1>9. ASSUME NEW f \in Flights, LookRefused(f) PROVE NobodyWaitsInVain'
  BY <1>9 DEF LookRefused, Go, Same, Land, Settle, Freed, NoFlight, ui
<1>10. ASSUME NEW f \in Flights, Clear(f) PROVE NobodyWaitsInVain'
  BY <1>10 DEF Clear, Touched, Land, Settle, Freed, NoFlight, ui
<1>11. ASSUME NEW f \in Flights, TimeIsUp(f) PROVE NobodyWaitsInVain'
  BY <1>11 DEF TimeIsUp, Land, Settle, Freed, NoFlight, ui
<1>12. ASSUME NEW u \in Users, SignInTokens(u) PROVE NobodyWaitsInVain'
  BY <1>12 DEF SignInTokens, UiKeeps, Mintable, NoSignIn, ui
<1>13. CASE Identify
  BY <1>13 DEF Identify, UiKeeps, ui
<1>14. CASE CommitBlank
  BY <1>14 DEF CommitBlank, UiKeeps, Touched, ui
<1>15. CASE CommitPut
  BY <1>15 DEF CommitPut, UiKeeps, Touched, NoSignIn, ui
<1>16. CASE SignOut
  BY <1>16 DEF SignOut, UiKeeps, ui
<1>17. CASE signOutLocally
  BY <1>17 DEF signOutLocally, UiKeeps, Touched, ui
<1>18. CASE endProviderSession
  BY <1>18 DEF endProviderSession, UiKeeps, NoSignOut, ui
<1>19. CASE Revoke
  BY <1>19 DEF Revoke, ui
<1>20. CASE Restart
  BY <1>20 DEF Restart, NoFlight, NoSignIn, NoSignOut
<1>21. CASE UNCHANGED vars
  BY <1>21 DEF vars, ui, ghost
<1> QED BY <1>1, <1>2, <1>3, <1>4, <1>5, <1>6, <1>7, <1>8, <1>9, <1>10, <1>11,
       <1>12, <1>13, <1>14, <1>15, <1>16, <1>17, <1>18, <1>19, <1>20, <1>21
       DEF Next, Asking, Working

(* A sign-out leaves the store empty, and no refresh can get past its look *)
(* at an empty store; one that was past it is a race.                      *)
LEMMA SignOutKept ==
  TypeOK /\ SignedOutStays /\ NonePoised /\ [Next]_vars => SignedOutStays' /\ NonePoised'
<1> SUFFICES ASSUME TypeOK, SignedOutStays, NonePoised, [Next]_vars
             PROVE  SignedOutStays' /\ NonePoised'
  OBVIOUS
<1> USE SessionAssumption DEF TypeOK, FlightsOK, SwitchesOK, SignedOutStays, NonePoised, Poised
<1>1. ASSUME NEW c \in Callers, GetStored(c) PROVE SignedOutStays' /\ NonePoised'
  BY <1>1 DEF GetStored, MayAsk, ui, ghost
<1>2. ASSUME NEW c \in Callers, GetRefreshed(c) PROVE SignedOutStays' /\ NonePoised'
  BY <1>2 DEF GetRefreshed, MayAsk, NoFlight, ui, ghost
<1>3. ASSUME NEW f \in Flights, Granted(f) PROVE SignedOutStays' /\ NonePoised'
  BY <1>3 DEF Granted, FlightKeeps, Mintable, ui
<1>4. ASSUME NEW f \in Flights, Refused(f) PROVE SignedOutStays' /\ NonePoised'
  BY <1>4 DEF Refused, FlightKeeps, Go, ui
<1>5. ASSUME NEW f \in Flights, Failed(f) PROVE SignedOutStays' /\ NonePoised'
  BY <1>5 DEF Failed, Land, Settle, Freed, NoFlight, ui
<1>6. ASSUME NEW f \in Flights, Look(f) PROVE SignedOutStays' /\ NonePoised'
  BY <1>6 DEF Look, Go, Same, Land, Settle, Freed, NoFlight, ui
<1>7. ASSUME NEW f \in Flights, Blank(f) PROVE SignedOutStays' /\ NonePoised'
  BY <1>7 DEF Blank, Go, Touched, FlightKeeps, ui
<1>8. ASSUME NEW f \in Flights, Put(f) PROVE SignedOutStays' /\ NonePoised'
  BY <1>8 DEF Put, Touched, Land, Settle, Freed, NoFlight, ui
<1>9. ASSUME NEW f \in Flights, LookRefused(f) PROVE SignedOutStays' /\ NonePoised'
  BY <1>9 DEF LookRefused, Go, Same, Land, Settle, Freed, NoFlight, ui
<1>10. ASSUME NEW f \in Flights, Clear(f) PROVE SignedOutStays' /\ NonePoised'
  BY <1>10 DEF Clear, Touched, Land, Settle, Freed, NoFlight, ui
<1>11. ASSUME NEW f \in Flights, TimeIsUp(f) PROVE SignedOutStays' /\ NonePoised'
  BY <1>11 DEF TimeIsUp, Land, Settle, Freed, NoFlight, ui
<1>12. ASSUME NEW u \in Users, SignInTokens(u) PROVE SignedOutStays' /\ NonePoised'
  BY <1>12 DEF SignInTokens, UiKeeps, Mintable, NoSignIn, ui
<1>13. CASE Identify
  BY <1>13 DEF Identify, UiKeeps, ui
<1>14. CASE CommitBlank
  BY <1>14 DEF CommitBlank, UiKeeps, Touched, ui
<1>15. CASE CommitPut
  BY <1>15 DEF CommitPut, UiKeeps, Touched, NoSignIn, ui
<1>16. CASE SignOut
  BY <1>16 DEF SignOut, UiKeeps, ui
<1>17. CASE signOutLocally
  BY <1>17 DEF signOutLocally, UiKeeps, Touched, ui
<1>18. CASE endProviderSession
  BY <1>18 DEF endProviderSession, UiKeeps, NoSignOut, ui
<1>19. CASE Revoke
  BY <1>19 DEF Revoke, ui, ghost
<1>20. CASE Restart
  BY <1>20 DEF Restart, NoFlight, NoSignIn, NoSignOut
<1>21. CASE UNCHANGED vars
  BY <1>21 DEF vars, ui, ghost
<1> QED BY <1>1, <1>2, <1>3, <1>4, <1>5, <1>6, <1>7, <1>8, <1>9, <1>10, <1>11,
       <1>12, <1>13, <1>14, <1>15, <1>16, <1>17, <1>18, <1>19, <1>20, <1>21
       DEF Next, Asking, Working

(* Asking for a token, or on the way to store the one it got               *)
Spends(f) == flight[f].at \notin {"idle", "forget"}
EndsIn(f) == flight[f].at \in {"look", "blank", "put"}
NewToken(f) == EndsIn(f) /\ flight[f].next # flight[f].from.token

(* A flight that spends a token has one, and has got one when it looks.    *)
HandsOK ==
  \A f \in Flights :
    /\ Spends(f) => flight[f].from.token # None
    /\ flight[f].at = "forget" => flight[f].from.token = None
    /\ EndsIn(f) => flight[f].next # None

(* A token is of one account.                                              *)
OneAccount ==
  /\ \A f \in Flights : Spends(f) /\ Same(f) => store = flight[f].from
  /\ \A f, g \in Flights :
       Spends(f) /\ Spends(g) /\ flight[f].from.token = flight[g].from.token
         => flight[f].from = flight[g].from

(* A token that replaces another is in no other hands until it is stored,  *)
FreshNext ==
  \A f \in Flights : NewToken(f) =>
    /\ store # None => store.token # flight[f].next
    /\ signIn.to # None => signIn.to.token # flight[f].next
    /\ \A g \in Flights \ {f} : flight[g].at # "idle" =>
         flight[g].from.token # flight[f].next /\ flight[g].next # flight[f].next

(* nor is that of a sign-in.                                               *)
FreshSignIn ==
  signIn.to # None /\ signIn.to.token # None =>
    /\ store # None => store.token # signIn.to.token
    /\ \A f \in Flights : flight[f].at # "idle" =>
         flight[f].from.token # signIn.to.token /\ flight[f].next # signIn.to.token

TokensOK == HandsOK /\ OneAccount /\ FreshNext /\ FreshSignIn

(* A flight past its look has the record it looked at before it, until it  *)
(* takes it away; nobody else is at its write then.                        *)
PoisedOK ==
  ~raced => \A f \in Flights :
    /\ flight[f].at \in {"blank", "clear", "forget"} => store = flight[f].from
    /\ flight[f].at = "put" => /\ store = None
                               /\ session \in {None, flight[f].from}
                               /\ \A g \in Flights : flight[g].at = "put" => g = f

(* The session the user has by rights is the record, but during a write.   *)
StoredOK ==
  ~raced /\ session # None =>
    /\ signIn.at # "put"
    /\ store = session \/ \E f \in Flights : flight[f].at = "put"

(* A token the store will not have again                                   *)
Gone(t) ==
  /\ store # None => store.token # t
  /\ \A f \in Flights : flight[f].at \in {"blank", "put"} => flight[f].next # t
  /\ signIn.to # None => signIn.to.token # t

(* Who shares a refresh that was begun for another account gets nothing of *)
(* it: its look will not find the record it was begun for.                 *)
Stranger(f) == \E c \in Callers : caller[c] \ {flight[f].from.user} # {}

SharersOK ==
  ~raced => \A f \in Flights :
    refreshing = f /\ flight[f].at \in {"ask", "look", "blank", "put"} /\ Stranger(f) =>
      flight[f].at \in {"ask", "look"} /\ Gone(flight[f].from.token)

(* A token that is minted is new to whoever holds one.                     *)
LEMMA Minted ==
  ASSUME NEW t \in Mintable
  PROVE  /\ t \in Tokens
         /\ store # None => store.token # t
         /\ signIn.to # None => signIn.to.token # t
         /\ \A f \in Flights : /\ flight[f].from # None => flight[f].from.token # t
                               /\ flight[f].next # t
<1>1. t \in Tokens /\ t \notin InHand
  BY DEF Mintable
<1>2. /\ t \notin TokenOf(store) /\ t \notin TokenOf(signIn.to)
      /\ \A f \in Flights : t \notin TokenOf(flight[f].from) \union {flight[f].next}
  BY <1>1 DEF InHand
<1> QED BY <1>1, <1>2 DEF TokenOf

(* A flight is begun for a record with a token, and looks at the store with *)
(* the token it got.                                                       *)
LEMMA HandsKept == TypeOK /\ HeldOK /\ HandsOK /\ [Next]_vars => HandsOK'
<1> SUFFICES ASSUME TypeOK, HeldOK, HandsOK, [Next]_vars PROVE HandsOK'
  OBVIOUS
<1> USE SessionAssumption DEF TypeOK, RecordsOK, FlightsOK, Sessions, FlightPlaces,
       HeldOK, HandsOK, Spends, EndsIn
<1>1. ASSUME NEW c \in Callers, GetStored(c) PROVE HandsOK'
  BY <1>1 DEF GetStored, MayAsk, ui, ghost
<1>2. ASSUME NEW c \in Callers, GetRefreshed(c) PROVE HandsOK'
  BY <1>2 DEF GetRefreshed, MayAsk, NoFlight, ui, ghost
<1>3. ASSUME NEW f \in Flights, Granted(f) PROVE HandsOK'
  BY <1>3, Minted DEF Granted, FlightKeeps, ui, ghost
<1>4. ASSUME NEW f \in Flights, Refused(f) PROVE HandsOK'
  BY <1>4 DEF Refused, FlightKeeps, Go, ui, ghost
<1>5. ASSUME NEW f \in Flights, Failed(f) PROVE HandsOK'
  BY <1>5 DEF Failed, Land, Settle, Freed, NoFlight, ui, ghost
<1>6. ASSUME NEW f \in Flights, Look(f) PROVE HandsOK'
  BY <1>6 DEF Look, Go, Same, Land, Settle, Freed, NoFlight, ui, ghost
<1>7. ASSUME NEW f \in Flights, Blank(f) PROVE HandsOK'
  BY <1>7 DEF Blank, Go, Touched, Poised, FlightKeeps, ui, ghost
<1>8. ASSUME NEW f \in Flights, Put(f) PROVE HandsOK'
  BY <1>8 DEF Put, Touched, Poised, Land, Settle, Freed, NoFlight, ui, ghost
<1>9. ASSUME NEW f \in Flights, LookRefused(f) PROVE HandsOK'
  BY <1>9 DEF LookRefused, Go, Same, Land, Settle, Freed, NoFlight, ui, ghost
<1>10. ASSUME NEW f \in Flights, Clear(f) PROVE HandsOK'
  BY <1>10 DEF Clear, Touched, Poised, Land, Settle, Freed, NoFlight, ui, ghost
<1>11. ASSUME NEW f \in Flights, TimeIsUp(f) PROVE HandsOK'
  BY <1>11 DEF TimeIsUp, Settle, Freed, NoFlight, ui, ghost
<1>12. ASSUME NEW u \in Users, SignInTokens(u) PROVE HandsOK'
  BY <1>12, Minted DEF SignInTokens, UiKeeps, NoSignIn, ui, ghost
<1>13. CASE Identify
  BY <1>13 DEF Identify, UiKeeps, ui, ghost
<1>14. CASE CommitBlank
  BY <1>14 DEF CommitBlank, UiKeeps, Touched, Poised, ui, ghost
<1>15. CASE CommitPut
  BY <1>15 DEF CommitPut, UiKeeps, Touched, Poised, NoSignIn, ui, ghost
<1>16. CASE SignOut
  BY <1>16 DEF SignOut, UiKeeps, ui, ghost
<1>17. CASE signOutLocally
  BY <1>17 DEF signOutLocally, UiKeeps, Touched, Poised, ui, ghost
<1>18. CASE endProviderSession
  BY <1>18 DEF endProviderSession, UiKeeps, NoSignOut, ui, ghost
<1>19. CASE Revoke
  BY <1>19 DEF Revoke, ui, ghost
<1>20. CASE Restart
  BY <1>20 DEF Restart, NoFlight, NoSignIn, NoSignOut, ui, ghost
<1>21. CASE UNCHANGED vars
  BY <1>21 DEF vars, ui, ghost
<1> QED BY <1>1, <1>2, <1>3, <1>4, <1>5, <1>6, <1>7, <1>8, <1>9, <1>10, <1>11,
       <1>12, <1>13, <1>14, <1>15, <1>16, <1>17, <1>18, <1>19, <1>20, <1>21
       DEF Next, Asking, Working

(* Tokens stay with their account: what is stored is a flight's own record *)
(* or one with a token nobody else has.                                    *)
LEMMA OneAccountKept == TypeOK /\ HeldOK /\ TokensOK /\ [Next]_vars => OneAccount'
<1> SUFFICES ASSUME TypeOK, HeldOK, TokensOK, [Next]_vars PROVE OneAccount'
  OBVIOUS
<1> USE SessionAssumption DEF TypeOK, RecordsOK, FlightsOK, Sessions, FlightPlaces,
       HeldOK, TokensOK, HandsOK, OneAccount, FreshNext, FreshSignIn, Same, Spends, EndsIn,
       NewToken
<1>0. ASSUME store' \in {store, None},
             \A g \in Flights : \/ flight'[g].at = "idle"
                               \/ /\ flight'[g].from = flight[g].from
                                  /\ flight'[g].at \notin {"idle", "forget"} => Spends(g)
      PROVE  OneAccount'
  BY <1>0
<1>1. ASSUME NEW c \in Callers, GetStored(c) PROVE OneAccount'
  BY <1>1 DEF GetStored, MayAsk, ui, ghost
<1>2. ASSUME NEW c \in Callers, GetRefreshed(c) PROVE OneAccount'
  <2>1. store' = store /\ store # None
    BY <1>2 DEF GetRefreshed
  <2>2. \A g \in Flights : \/ flight'[g] = flight[g]
                          \/ /\ flight'[g].from = store
                             /\ flight'[g].at = IF store.token = None THEN "forget" ELSE "ask"
    BY <1>2 DEF GetRefreshed
  <2>3. \A g \in Flights : Spends(g)' => \/ Spends(g) /\ flight'[g].from = flight[g].from
                                         \/ flight'[g].from = store
    BY <2>2
  <2>4. \A g \in Flights : Spends(g)' /\ Same(g)' => store' = flight'[g].from
    BY <2>1, <2>3
  <2>5. \A g, h \in Flights :
          Spends(g)' /\ Spends(h)' /\ flight'[g].from.token = flight'[h].from.token
            => flight'[g].from = flight'[h].from
    BY <2>1, <2>3
  <2> QED BY <2>4, <2>5
<1>3. ASSUME NEW f \in Flights, Granted(f) PROVE OneAccount'
  <2>1. store' = store
    BY <1>3 DEF Granted
  <2>2. PICK t : flight' = [flight EXCEPT ![f].at = "look", ![f].next = t]
    BY <1>3 DEF Granted
  <2>3. \A g \in Flights : flight'[g].from = flight[g].from
    BY <2>2
  <2>4. \A g \in Flights \ {f} : flight'[g].at = flight[g].at
    BY <2>2
  <2>5. Spends(f)
    BY <1>3 DEF Granted
  <2> QED BY <1>0, <2>1, <2>3, <2>4, <2>5
<1>4. ASSUME NEW f \in Flights, Refused(f) PROVE OneAccount'
  BY <1>4 DEF Refused, FlightKeeps, Go, ui, ghost
<1>5. ASSUME NEW f \in Flights, Failed(f) PROVE OneAccount'
  <2>1. store' = store /\ flight' = [flight EXCEPT ![f] = NoFlight]
    BY <1>5 DEF Failed, Land
  <2> QED BY <1>0, <2>1 DEF NoFlight
<1>6. ASSUME NEW f \in Flights, Look(f) PROVE OneAccount'
  <2>1. store' = store
    BY <1>6 DEF Look
  <2>2. CASE Go(f, "look", "blank")
    BY <1>0, <2>1, <2>2 DEF Go
  <2>3. CASE flight' = [flight EXCEPT ![f] = NoFlight]
    BY <1>0, <2>1, <2>3 DEF NoFlight
  <2> QED BY <1>6, <2>2, <2>3 DEF Look, Land
<1>7. ASSUME NEW f \in Flights, Blank(f) PROVE OneAccount'
  BY <1>7 DEF Blank, Go, Touched, Poised, FlightKeeps, ui, ghost
<1>8. ASSUME NEW f \in Flights, Put(f) PROVE OneAccount'
  BY <1>8 DEF Put, Touched, Poised, Land, Settle, Freed, NoFlight, ui, ghost
<1>9. ASSUME NEW f \in Flights, LookRefused(f) PROVE OneAccount'
  <2>1. store' = store
    BY <1>9 DEF LookRefused
  <2>2. CASE Go(f, "lookRefused", "clear")
    BY <1>0, <2>1, <2>2 DEF Go
  <2>3. CASE flight' = [flight EXCEPT ![f] = NoFlight]
    BY <1>0, <2>1, <2>3 DEF NoFlight
  <2> QED BY <1>9, <2>2, <2>3 DEF LookRefused, Land
<1>10. ASSUME NEW f \in Flights, Clear(f) PROVE OneAccount'
  <2>1. store' = None /\ flight' = [flight EXCEPT ![f] = NoFlight]
    BY <1>10 DEF Clear, Land
  <2> QED BY <1>0, <2>1 DEF NoFlight
<1>11. ASSUME NEW f \in Flights, TimeIsUp(f) PROVE OneAccount'
  <2>1. store' = store
    BY <1>11 DEF TimeIsUp
  <2>2. \A g \in Flights : flight'[g] = flight[g] \/ flight'[g].at = "idle"
    BY <1>11 DEF TimeIsUp, Settle, Freed, NoFlight
  <2> QED BY <2>1, <2>2
<1>12. ASSUME NEW u \in Users, SignInTokens(u) PROVE OneAccount'
  BY <1>12, Minted DEF SignInTokens, UiKeeps, NoSignIn, ui, ghost
<1>13. CASE Identify
  BY <1>13 DEF Identify, UiKeeps, ui, ghost
<1>14. CASE CommitBlank
  BY <1>14 DEF CommitBlank, UiKeeps, Touched, Poised, ui, ghost
<1>15. CASE CommitPut
  BY <1>15 DEF CommitPut, UiKeeps, Touched, Poised, NoSignIn, ui, ghost
<1>16. CASE SignOut
  BY <1>16 DEF SignOut, UiKeeps, ui, ghost
<1>17. CASE signOutLocally
  BY <1>17 DEF signOutLocally, UiKeeps, Touched, Poised, ui, ghost
<1>18. CASE endProviderSession
  BY <1>18 DEF endProviderSession, UiKeeps, NoSignOut, ui, ghost
<1>19. CASE Revoke
  BY <1>19 DEF Revoke, ui, ghost
<1>20. CASE Restart
  BY <1>20 DEF Restart, NoFlight, NoSignIn, NoSignOut, ui, ghost
<1>21. CASE UNCHANGED vars
  BY <1>21 DEF vars, ui, ghost
<1> QED BY <1>1, <1>2, <1>3, <1>4, <1>5, <1>6, <1>7, <1>8, <1>9, <1>10, <1>11,
       <1>12, <1>13, <1>14, <1>15, <1>16, <1>17, <1>18, <1>19, <1>20, <1>21
       DEF Next, Asking, Working

(* A token that replaces another leaves its flight for the store only.     *)
LEMMA FreshNextKept == TypeOK /\ HeldOK /\ TokensOK /\ [Next]_vars => FreshNext'
<1> SUFFICES ASSUME TypeOK, HeldOK, TokensOK, [Next]_vars PROVE FreshNext'
  OBVIOUS
<1> USE SessionAssumption DEF TypeOK, RecordsOK, FlightsOK, Sessions, FlightPlaces,
       HeldOK, TokensOK, HandsOK, FreshNext, FreshSignIn, Spends, EndsIn, NewToken
<1>1. ASSUME NEW c \in Callers, GetStored(c) PROVE FreshNext'
  BY <1>1 DEF GetStored, MayAsk, ui, ghost
<1>2. ASSUME NEW c \in Callers, GetRefreshed(c) PROVE FreshNext'
  BY <1>2 DEF GetRefreshed, MayAsk, NoFlight, ui, ghost
<1>3. ASSUME NEW f \in Flights, Granted(f) PROVE FreshNext'
  <2>1. UNCHANGED <<store, signIn>> /\ flight[f].at = "ask"
    BY <1>3 DEF Granted, FlightKeeps, ui
  <2>2. PICK t : /\ flight' = [flight EXCEPT ![f].at = "look", ![f].next = t]
                 /\ t = flight[f].from.token \/ t \in Mintable
    BY <1>3 DEF Granted
  <2>3. \A g \in Flights \ {f} : flight'[g] = flight[g]
    BY <2>2
  <2>4. flight'[f].from = flight[f].from /\ flight'[f].next = t
    BY <2>2
  <2>5. CASE t = flight[f].from.token
    BY <2>1, <2>3, <2>4, <2>5
  <2>6. CASE t \in Mintable
    BY <2>1, <2>3, <2>4, <2>6, Minted
  <2> QED BY <2>2, <2>5, <2>6
<1>4. ASSUME NEW f \in Flights, Refused(f) PROVE FreshNext'
  BY <1>4 DEF Refused, FlightKeeps, Go, ui, ghost
<1>5. ASSUME NEW f \in Flights, Failed(f) PROVE FreshNext'
  BY <1>5 DEF Failed, Land, Settle, Freed, NoFlight, ui, ghost
<1>6. ASSUME NEW f \in Flights, Look(f) PROVE FreshNext'
  BY <1>6 DEF Look, Go, Same, Land, Settle, Freed, NoFlight, ui, ghost
<1>7. ASSUME NEW f \in Flights, Blank(f) PROVE FreshNext'
  BY <1>7 DEF Blank, Go, Touched, Poised, FlightKeeps, ui, ghost
<1>8. ASSUME NEW f \in Flights, Put(f) PROVE FreshNext'
  BY <1>8 DEF Put, Touched, Poised, Land, Settle, Freed, NoFlight, ui, ghost
<1>9. ASSUME NEW f \in Flights, LookRefused(f) PROVE FreshNext'
  BY <1>9 DEF LookRefused, Go, Same, Land, Settle, Freed, NoFlight, ui, ghost
<1>10. ASSUME NEW f \in Flights, Clear(f) PROVE FreshNext'
  BY <1>10 DEF Clear, Touched, Poised, Land, Settle, Freed, NoFlight, ui, ghost
<1>11. ASSUME NEW f \in Flights, TimeIsUp(f) PROVE FreshNext'
  BY <1>11 DEF TimeIsUp, Settle, Freed, NoFlight, ui, ghost
<1>12. ASSUME NEW u \in Users, SignInTokens(u) PROVE FreshNext'
  BY <1>12, Minted DEF SignInTokens, UiKeeps, NoSignIn, ui, ghost
<1>13. CASE Identify
  BY <1>13 DEF Identify, UiKeeps, ui, ghost
<1>14. CASE CommitBlank
  BY <1>14 DEF CommitBlank, UiKeeps, Touched, Poised, ui, ghost
<1>15. CASE CommitPut
  BY <1>15 DEF CommitPut, UiKeeps, Touched, Poised, NoSignIn, ui, ghost
<1>16. CASE SignOut
  BY <1>16 DEF SignOut, UiKeeps, ui, ghost
<1>17. CASE signOutLocally
  BY <1>17 DEF signOutLocally, UiKeeps, Touched, Poised, ui, ghost
<1>18. CASE endProviderSession
  BY <1>18 DEF endProviderSession, UiKeeps, NoSignOut, ui, ghost
<1>19. CASE Revoke
  BY <1>19 DEF Revoke, ui, ghost
<1>20. CASE Restart
  BY <1>20 DEF Restart, NoFlight, NoSignIn, NoSignOut, ui, ghost
<1>21. CASE UNCHANGED vars
  BY <1>21 DEF vars, ui, ghost
<1> QED BY <1>1, <1>2, <1>3, <1>4, <1>5, <1>6, <1>7, <1>8, <1>9, <1>10, <1>11,
       <1>12, <1>13, <1>14, <1>15, <1>16, <1>17, <1>18, <1>19, <1>20, <1>21
       DEF Next, Asking, Working

(* So does the token of a sign-in.                                         *)
LEMMA FreshSignInKept == TypeOK /\ HeldOK /\ TokensOK /\ [Next]_vars => FreshSignIn'
<1> SUFFICES ASSUME TypeOK, HeldOK, TokensOK, [Next]_vars PROVE FreshSignIn'
  OBVIOUS
<1> USE SessionAssumption DEF TypeOK, RecordsOK, FlightsOK, Sessions, FlightPlaces,
       HeldOK, TokensOK, HandsOK, FreshNext, FreshSignIn, Spends, EndsIn, NewToken
<1>1. ASSUME NEW c \in Callers, GetStored(c) PROVE FreshSignIn'
  BY <1>1 DEF GetStored, MayAsk, ui, ghost
<1>2. ASSUME NEW c \in Callers, GetRefreshed(c) PROVE FreshSignIn'
  BY <1>2 DEF GetRefreshed, MayAsk, NoFlight, ui, ghost
<1>3. ASSUME NEW f \in Flights, Granted(f) PROVE FreshSignIn'
  BY <1>3, Minted DEF Granted, FlightKeeps, ui, ghost
<1>4. ASSUME NEW f \in Flights, Refused(f) PROVE FreshSignIn'
  BY <1>4 DEF Refused, FlightKeeps, Go, ui, ghost
<1>5. ASSUME NEW f \in Flights, Failed(f) PROVE FreshSignIn'
  BY <1>5 DEF Failed, Land, Settle, Freed, NoFlight, ui, ghost
<1>6. ASSUME NEW f \in Flights, Look(f) PROVE FreshSignIn'
  BY <1>6 DEF Look, Go, Same, Land, Settle, Freed, NoFlight, ui, ghost
<1>7. ASSUME NEW f \in Flights, Blank(f) PROVE FreshSignIn'
  BY <1>7 DEF Blank, Go, Touched, Poised, FlightKeeps, ui, ghost
<1>8. ASSUME NEW f \in Flights, Put(f) PROVE FreshSignIn'
  BY <1>8 DEF Put, Touched, Poised, Land, Settle, Freed, NoFlight, ui, ghost
<1>9. ASSUME NEW f \in Flights, LookRefused(f) PROVE FreshSignIn'
  BY <1>9 DEF LookRefused, Go, Same, Land, Settle, Freed, NoFlight, ui, ghost
<1>10. ASSUME NEW f \in Flights, Clear(f) PROVE FreshSignIn'
  BY <1>10 DEF Clear, Touched, Poised, Land, Settle, Freed, NoFlight, ui, ghost
<1>11. ASSUME NEW f \in Flights, TimeIsUp(f) PROVE FreshSignIn'
  <2>1. UNCHANGED <<store, signIn>>
    BY <1>11 DEF TimeIsUp, ui
  <2>2. \A g \in Flights : flight'[g] = flight[g] \/ flight'[g].at = "idle"
    BY <1>11 DEF TimeIsUp, NoFlight
  <2> QED BY <2>1, <2>2
<1>12. ASSUME NEW u \in Users, SignInTokens(u) PROVE FreshSignIn'
  BY <1>12, Minted DEF SignInTokens, UiKeeps, NoSignIn, ui, ghost
<1>13. CASE Identify
  BY <1>13 DEF Identify, UiKeeps, ui, ghost
<1>14. CASE CommitBlank
  BY <1>14 DEF CommitBlank, UiKeeps, Touched, Poised, ui, ghost
<1>15. CASE CommitPut
  BY <1>15 DEF CommitPut, UiKeeps, Touched, Poised, NoSignIn, ui, ghost
<1>16. CASE SignOut
  BY <1>16 DEF SignOut, UiKeeps, ui, ghost
<1>17. CASE signOutLocally
  BY <1>17 DEF signOutLocally, UiKeeps, Touched, Poised, ui, ghost
<1>18. CASE endProviderSession
  BY <1>18 DEF endProviderSession, UiKeeps, NoSignOut, ui, ghost
<1>19. CASE Revoke
  BY <1>19 DEF Revoke, ui, ghost
<1>20. CASE Restart
  BY <1>20 DEF Restart, NoFlight, NoSignIn, NoSignOut, ui, ghost
<1>21. CASE UNCHANGED vars
  BY <1>21 DEF vars, ui, ghost
<1> QED BY <1>1, <1>2, <1>3, <1>4, <1>5, <1>6, <1>7, <1>8, <1>9, <1>10, <1>11,
       <1>12, <1>13, <1>14, <1>15, <1>16, <1>17, <1>18, <1>19, <1>20, <1>21
       DEF Next, Asking, Working

(* What touches the store while a flight is past its look is a race.       *)
LEMMA PoisedKept ==
  TypeOK /\ HeldOK /\ TokensOK /\ PoisedOK /\ StoredOK /\ [Next]_vars
    => PoisedOK'
<1> SUFFICES ASSUME TypeOK, HeldOK, TokensOK, PoisedOK, StoredOK, [Next]_vars
             PROVE  PoisedOK'
  OBVIOUS
<1> USE SessionAssumption DEF TypeOK, RecordsOK, FlightsOK, Sessions, FlightPlaces,
       SwitchesOK, HeldOK, TokensOK, HandsOK, OneAccount, PoisedOK, Spends, Same, StoredOK
<1>1. ASSUME NEW c \in Callers, GetStored(c) PROVE PoisedOK'
  BY <1>1 DEF GetStored, MayAsk, ui, ghost
<1>2. ASSUME NEW c \in Callers, GetRefreshed(c) PROVE PoisedOK'
  BY <1>2 DEF GetRefreshed, MayAsk, NoFlight, ui, ghost
<1>3. ASSUME NEW f \in Flights, Granted(f) PROVE PoisedOK'
  BY <1>3 DEF Granted, FlightKeeps, ui, ghost
<1>4. ASSUME NEW f \in Flights, Refused(f) PROVE PoisedOK'
  BY <1>4 DEF Refused, FlightKeeps, Go, ui, ghost
<1>5. ASSUME NEW f \in Flights, Failed(f) PROVE PoisedOK'
  BY <1>5 DEF Failed, Land, Settle, Freed, NoFlight, ui, ghost
<1>6. ASSUME NEW f \in Flights, Look(f) PROVE PoisedOK'
  BY <1>6 DEF Look, Go, Same, Land, Settle, Freed, NoFlight, ui, ghost
<1>7. ASSUME NEW f \in Flights, Blank(f) PROVE PoisedOK'
  <2>1. ~raced' => ~raced /\ \A g \in Flights \ {f} : ~Poised(g)
    BY <1>7 DEF Blank, Touched
  <2>2. ~raced' => session \in {None, flight[f].from}
    BY <1>7, <2>1 DEF Blank, Go, Poised
  <2> QED BY <1>7, <2>1, <2>2 DEF Blank, Go, Poised, FlightKeeps
<1>8. ASSUME NEW f \in Flights, Put(f) PROVE PoisedOK'
  BY <1>8 DEF Put, Touched, Poised, Land, Settle, Freed, NoFlight, ui, ghost
<1>9. ASSUME NEW f \in Flights, LookRefused(f) PROVE PoisedOK'
  BY <1>9 DEF LookRefused, Go, Same, Land, Settle, Freed, NoFlight, ui, ghost
<1>10. ASSUME NEW f \in Flights, Clear(f) PROVE PoisedOK'
  <2>1. ~raced' => \A g \in Flights \ {f} : ~Poised(g)
    BY <1>10 DEF Clear, Touched
  <2>2. \A g \in Flights : flight'[g] = IF g = f THEN NoFlight ELSE flight[g]
    BY <1>10 DEF Clear, Land
  <2> QED BY <2>1, <2>2 DEF Poised, NoFlight
<1>11. ASSUME NEW f \in Flights, TimeIsUp(f) PROVE PoisedOK'
  BY <1>11 DEF TimeIsUp, Settle, Freed, NoFlight, ui, ghost
<1>12. ASSUME NEW u \in Users, SignInTokens(u) PROVE PoisedOK'
  BY <1>12 DEF SignInTokens, UiKeeps, NoSignIn, ui, ghost
<1>13. CASE Identify
  BY <1>13 DEF Identify, UiKeeps, ui, ghost
<1>14. CASE CommitBlank
  BY <1>14 DEF CommitBlank, UiKeeps, Touched, Poised, ui, ghost
<1>15. CASE CommitPut
  BY <1>15 DEF CommitPut, UiKeeps, Touched, Poised, NoSignIn, ui, ghost
<1>16. CASE SignOut
  BY <1>16 DEF SignOut, UiKeeps, ui, ghost
<1>17. CASE signOutLocally
  BY <1>17 DEF signOutLocally, UiKeeps, Touched, Poised, ui, ghost
<1>18. CASE endProviderSession
  BY <1>18 DEF endProviderSession, UiKeeps, NoSignOut, ui, ghost
<1>19. CASE Revoke
  BY <1>19 DEF Revoke, ui, ghost
<1>20. CASE Restart
  BY <1>20 DEF Restart, NoFlight, NoSignIn, NoSignOut, ui, ghost
<1>21. CASE UNCHANGED vars
  BY <1>21 DEF vars, ui, ghost
<1> QED BY <1>1, <1>2, <1>3, <1>4, <1>5, <1>6, <1>7, <1>8, <1>9, <1>10, <1>11,
       <1>12, <1>13, <1>14, <1>15, <1>16, <1>17, <1>18, <1>19, <1>20, <1>21
       DEF Next, Asking, Working

(* The session by rights moves with the record.                            *)
LEMMA StoredKept ==
  TypeOK /\ HeldOK /\ TokensOK /\ PoisedOK /\ StoredOK /\ [Next]_vars
    => StoredOK'
<1> SUFFICES ASSUME TypeOK, HeldOK, TokensOK, PoisedOK, StoredOK, [Next]_vars
             PROVE  StoredOK'
  OBVIOUS
<1> USE SessionAssumption DEF TypeOK, RecordsOK, FlightsOK, Sessions, FlightPlaces,
       SwitchesOK, HeldOK, TokensOK, HandsOK, OneAccount, PoisedOK, Spends, Same, StoredOK
<1>1. ASSUME NEW c \in Callers, GetStored(c) PROVE StoredOK'
  BY <1>1 DEF GetStored, MayAsk, ui, ghost
<1>2. ASSUME NEW c \in Callers, GetRefreshed(c) PROVE StoredOK'
  BY <1>2 DEF GetRefreshed, MayAsk, NoFlight, ui, ghost
<1>3. ASSUME NEW f \in Flights, Granted(f) PROVE StoredOK'
  BY <1>3 DEF Granted, FlightKeeps, ui, ghost
<1>4. ASSUME NEW f \in Flights, Refused(f) PROVE StoredOK'
  BY <1>4 DEF Refused, FlightKeeps, Go, ui, ghost
<1>5. ASSUME NEW f \in Flights, Failed(f) PROVE StoredOK'
  BY <1>5 DEF Failed, Land, Settle, Freed, NoFlight, ui, ghost
<1>6. ASSUME NEW f \in Flights, Look(f) PROVE StoredOK'
  BY <1>6 DEF Look, Go, Same, Land, Settle, Freed, NoFlight, ui, ghost
<1>7. ASSUME NEW f \in Flights, Blank(f) PROVE StoredOK'
  BY <1>7 DEF Blank, Go, Touched, Poised, FlightKeeps, ui, ghost
<1>8. ASSUME NEW f \in Flights, Put(f) PROVE StoredOK'
  BY <1>8 DEF Put, Touched, Poised, Land, Settle, Freed, NoFlight, ui, ghost
<1>9. ASSUME NEW f \in Flights, LookRefused(f) PROVE StoredOK'
  BY <1>9 DEF LookRefused, Go, Same, Land, Settle, Freed, NoFlight, ui, ghost
<1>10. ASSUME NEW f \in Flights, Clear(f) PROVE StoredOK'
  BY <1>10 DEF Clear, Touched, Poised, Land, Settle, Freed, NoFlight, ui, ghost
<1>11. ASSUME NEW f \in Flights, TimeIsUp(f) PROVE StoredOK'
  BY <1>11 DEF TimeIsUp, Settle, Freed, NoFlight, ui, ghost
<1>12. ASSUME NEW u \in Users, SignInTokens(u) PROVE StoredOK'
  BY <1>12 DEF SignInTokens, UiKeeps, NoSignIn, ui, ghost
<1>13. CASE Identify
  BY <1>13 DEF Identify, UiKeeps, ui, ghost
<1>14. CASE CommitBlank
  BY <1>14 DEF CommitBlank, UiKeeps, Touched, Poised, ui, ghost
<1>15. CASE CommitPut
  BY <1>15 DEF CommitPut, UiKeeps, Touched, Poised, NoSignIn, ui, ghost
<1>16. CASE SignOut
  BY <1>16 DEF SignOut, UiKeeps, ui, ghost
<1>17. CASE signOutLocally
  BY <1>17 DEF signOutLocally, UiKeeps, Touched, Poised, ui, ghost
<1>18. CASE endProviderSession
  BY <1>18 DEF endProviderSession, UiKeeps, NoSignOut, ui, ghost
<1>19. CASE Revoke
  BY <1>19 DEF Revoke, ui, ghost
<1>20. CASE Restart
  BY <1>20 DEF Restart, NoFlight, NoSignIn, NoSignOut, ui, ghost
<1>21. CASE UNCHANGED vars
  BY <1>21 DEF vars, ui, ghost
<1> QED BY <1>1, <1>2, <1>3, <1>4, <1>5, <1>6, <1>7, <1>8, <1>9, <1>10, <1>11,
       <1>12, <1>13, <1>14, <1>15, <1>16, <1>17, <1>18, <1>19, <1>20, <1>21
       DEF Next, Asking, Working

(* A stranger joins a flight only when the store has moved on from it, and *)
(* the store does not move back.                                           *)
LEMMA SharersKept ==
  TypeOK /\ HeldOK /\ NobodyWaitsInVain /\ TokensOK /\ PoisedOK /\ SharersOK /\ [Next]_vars
    => SharersOK'
<1> SUFFICES ASSUME TypeOK, HeldOK, NobodyWaitsInVain, TokensOK, PoisedOK, SharersOK, [Next]_vars
             PROVE  SharersOK'
  OBVIOUS
<1> USE SessionAssumption DEF TypeOK, RecordsOK, FlightsOK, Sessions, FlightPlaces,
       SwitchesOK, HeldOK, TokensOK, HandsOK, OneAccount, PoisedOK, Spends, Same,
       FreshNext, FreshSignIn, EndsIn, NewToken, SharersOK, Stranger, Gone, AnswersOK
<1>1. ASSUME NEW c \in Callers, GetStored(c) PROVE SharersOK'
  BY <1>1 DEF GetStored, MayAsk, ui, ghost
<1>2. ASSUME NEW c \in Callers, GetRefreshed(c) PROVE SharersOK'
  <2> SUFFICES ASSUME ~raced', NEW f \in Flights, refreshing' = f,
                      flight'[f].at \in {"ask", "look", "blank", "put"}, Stranger(f)'
               PROVE  flight'[f].at \in {"ask", "look"} /\ Gone(flight[f].from.token)'
    BY DEF SharersOK
  <2>1. /\ ~raced /\ store # None
        /\ UNCHANGED <<store, signIn>>
        /\ caller' = [caller EXCEPT ![c] = @ \union {store.user}]
    BY <1>2 DEF GetRefreshed, ui, ghost
  <2>2. CASE refreshing # None
    <3>1. flight' = flight /\ refreshing = f
      BY <1>2, <2>2 DEF GetRefreshed
    <3>2. CASE Stranger(f)
      BY <2>1, <3>1, <3>2
    <3>3. CASE ~Stranger(f)
      <4>1. store.user # flight[f].from.user
        BY <2>1, <3>1, <3>3
      <4>2. flight[f].at \in {"ask", "look"} /\ store.token # flight[f].from.token
        BY <2>1, <3>1, <4>1
      <4>3. \A g \in Flights : flight[g].at \in {"blank", "put"} =>
                                flight[g].next # flight[f].from.token
        BY <2>1, <4>2
      <4>4. signIn.to # None => signIn.to.token # flight[f].from.token
        BY <4>2
      <4> QED BY <2>1, <3>1, <4>2, <4>3, <4>4
    <3> QED BY <3>2, <3>3
  <2>3. CASE refreshing = None
    <3>1. flight'[f].from = store
      BY <1>2, <2>3 DEF GetRefreshed
    <3>2. \A k \in Callers : caller[k] = {}
      BY <2>3 DEF NobodyWaitsInVain, Waiting
    <3> QED BY <2>1, <3>1, <3>2
  <2> QED BY <2>2, <2>3
<1>3. ASSUME NEW f \in Flights, Granted(f) PROVE SharersOK'
  BY <1>3, Minted DEF Granted, FlightKeeps, ui, ghost
<1>4. ASSUME NEW f \in Flights, Refused(f) PROVE SharersOK'
  BY <1>4 DEF Refused, FlightKeeps, Go, ui, ghost
<1>5. ASSUME NEW f \in Flights, Failed(f) PROVE SharersOK'
  BY <1>5 DEF Failed, Land, Settle, Freed, NoFlight, ui, ghost
<1>6. ASSUME NEW f \in Flights, Look(f) PROVE SharersOK'
  <2>1. CASE Same(f) /\ Go(f, "look", "blank") /\ UNCHANGED <<caller, refreshing>>
    <3>1. /\ flight[f].at = "look" /\ flight' = [flight EXCEPT ![f].at = "blank"]
          /\ UNCHANGED <<store, signIn, raced, caller, refreshing>>
      BY <1>6, <2>1 DEF Look, Go, ui
    <3>2. ~raced => ~(refreshing = f /\ Stranger(f))
      BY <2>1, <3>1
    <3>3. \A g \in Flights \ {f} : ~raced /\ Spends(g) /\ Gone(flight[g].from.token) =>
                                     flight[f].next # flight[g].from.token
      BY <2>1, <3>1
    <3> QED BY <3>1, <3>2, <3>3
  <2>2. CASE Land(f, "null") \/ Land(f, "error")
    <3>1. UNCHANGED <<store, signIn, raced>>
      BY <1>6 DEF Look, ui
    <3>2. refreshing' = None \/ UNCHANGED <<refreshing, caller>>
      BY <2>2 DEF Land, Freed
    <3>3. \A g \in Flights : flight'[g] = IF g = f THEN NoFlight ELSE flight[g]
      BY <2>2 DEF Land
    <3> QED BY <3>1, <3>2, <3>3 DEF NoFlight
  <2> QED BY <1>6, <2>1, <2>2 DEF Look
<1>7. ASSUME NEW f \in Flights, Blank(f) PROVE SharersOK'
  BY <1>7 DEF Blank, Go, Touched, Poised, FlightKeeps, ui, ghost
<1>8. ASSUME NEW f \in Flights, Put(f) PROVE SharersOK'
  BY <1>8 DEF Put, Touched, Poised, Land, Settle, Freed, NoFlight, ui, ghost
<1>9. ASSUME NEW f \in Flights, LookRefused(f) PROVE SharersOK'
  BY <1>9 DEF LookRefused, Go, Same, Land, Settle, Freed, NoFlight, ui, ghost
<1>10. ASSUME NEW f \in Flights, Clear(f) PROVE SharersOK'
  BY <1>10 DEF Clear, Touched, Poised, Land, Settle, Freed, NoFlight, ui, ghost
<1>11. ASSUME NEW f \in Flights, TimeIsUp(f) PROVE SharersOK'
  BY <1>11 DEF TimeIsUp, Settle, Freed, NoFlight, ui, ghost
<1>12. ASSUME NEW u \in Users, SignInTokens(u) PROVE SharersOK'
  BY <1>12, Minted DEF SignInTokens, UiKeeps, NoSignIn, ui, ghost
<1>13. CASE Identify
  BY <1>13 DEF Identify, UiKeeps, ui, ghost
<1>14. CASE CommitBlank
  BY <1>14 DEF CommitBlank, UiKeeps, Touched, Poised, ui, ghost
<1>15. CASE CommitPut
  BY <1>15 DEF CommitPut, UiKeeps, Touched, Poised, NoSignIn, ui, ghost
<1>16. CASE SignOut
  BY <1>16 DEF SignOut, UiKeeps, ui, ghost
<1>17. CASE signOutLocally
  BY <1>17 DEF signOutLocally, UiKeeps, Touched, Poised, ui, ghost
<1>18. CASE endProviderSession
  BY <1>18 DEF endProviderSession, UiKeeps, NoSignOut, ui, ghost
<1>19. CASE Revoke
  BY <1>19 DEF Revoke, ui, ghost
<1>20. CASE Restart
  BY <1>20 DEF Restart, NoFlight, NoSignIn, NoSignOut, ui, ghost
<1>21. CASE UNCHANGED vars
  BY <1>21 DEF vars, ui, ghost
<1> QED BY <1>1, <1>2, <1>3, <1>4, <1>5, <1>6, <1>7, <1>8, <1>9, <1>10, <1>11,
       <1>12, <1>13, <1>14, <1>15, <1>16, <1>17, <1>18, <1>19, <1>20, <1>21
       DEF Next, Asking, Working

(* An answer without tokens is strange to nobody.                          *)
LEMMA SettleStrange ==
  ASSUME SwitchesOK, NEW answer \in {"null", "error", "rejected"}, Settle(answer)
  PROVE  strange' = strange
<1>1. answer \notin Users
  BY SessionAssumption
<1> QED BY Zenon, <1>1 DEF Settle, SwitchesOK

(* Only a stored answer has tokens, and who shares its flight asked for    *)
(* its account.                                                            *)
LEMMA OwnTokenKept ==
  TypeOK /\ PoisedOK /\ SharersOK /\ OwnToken /\ [Next]_vars
    => OwnToken'
<1> SUFFICES ASSUME TypeOK, PoisedOK, SharersOK, OwnToken, [Next]_vars
             PROVE  OwnToken'
  OBVIOUS
<1> USE SessionAssumption DEF TypeOK, SwitchesOK, FlightsOK, OwnToken
<1>1. ASSUME NEW c \in Callers, GetStored(c) PROVE OwnToken'
  BY <1>1 DEF GetStored, MayAsk, ui, ghost
<1>2. ASSUME NEW c \in Callers, GetRefreshed(c) PROVE OwnToken'
  BY <1>2 DEF GetRefreshed, MayAsk, NoFlight, ui, ghost
<1>3. ASSUME NEW f \in Flights, Granted(f) PROVE OwnToken'
  BY <1>3 DEF Granted, FlightKeeps, ui, ghost
<1>4. ASSUME NEW f \in Flights, Refused(f) PROVE OwnToken'
  BY <1>4 DEF Refused, FlightKeeps, Go, ui, ghost
<1>5. ASSUME NEW f \in Flights, Failed(f) PROVE OwnToken'
  <2>1. strange' = strange
    <3>1. ASSUME NEW answer \in {"null", "error", "rejected"}, Land(f, answer)
          PROVE  strange' = strange
      BY <3>1, SettleStrange DEF Land
    <3> QED BY Zenon, <1>5, <3>1 DEF Failed
  <2>2. raced' = raced
    BY <1>5 DEF Failed
  <2> QED BY <2>1, <2>2
<1>6. ASSUME NEW f \in Flights, Look(f) PROVE OwnToken'
  <2>1. strange' = strange
    <3>1. ASSUME NEW answer \in {"null", "error", "rejected"}, Land(f, answer)
          PROVE  strange' = strange
      BY <3>1, SettleStrange DEF Land
    <3> QED BY Zenon, <1>6, <3>1 DEF Look, FlightKeeps
  <2>2. raced' = raced
    BY <1>6 DEF Look, FlightKeeps
  <2> QED BY <2>1, <2>2
<1>7. ASSUME NEW f \in Flights, Blank(f) PROVE OwnToken'
  <2>1. strange' = strange /\ (raced => raced')
    BY <1>7 DEF Blank, Go, Touched, Poised, FlightKeeps
  <2> QED BY <2>1
<1>8. ASSUME NEW f \in Flights, Put(f) PROVE OwnToken'
  <2>1. raced => raced'
    BY <1>8 DEF Put, Touched
  <2>2. CASE refreshing = f
    <3>1. ~raced => \A c \in Callers : caller[c] \ {flight[f].from.user} = {}
      BY <1>8, <2>2 DEF Put, SharersOK, Stranger
    <3>2. Land(f, flight[f].from.user)
      BY <1>8 DEF Put
    <3>3. strange' => strange \/ \E c \in Callers : caller[c] \ {flight[f].from.user} # {}
      <4>1. Settle(flight[f].from.user)
        BY <2>2, <3>2 DEF Land
      <4> QED BY <4>1 DEF Settle, Waiting
    <3> QED BY Zenon, <2>1, <3>1, <3>3 DEF OwnToken
  <2>3. CASE refreshing # f
    <3>1. strange' = strange
      BY <1>8, <2>3 DEF Put, Land
    <3> QED BY <2>1, <3>1
  <2> QED BY <2>2, <2>3
<1>9. ASSUME NEW f \in Flights, LookRefused(f) PROVE OwnToken'
  <2>1. strange' = strange
    <3>1. ASSUME NEW answer \in {"null", "error", "rejected"}, Land(f, answer)
          PROVE  strange' = strange
      BY <3>1, SettleStrange DEF Land
    <3> QED BY Zenon, <1>9, <3>1 DEF LookRefused
  <2>2. raced' = raced
    BY <1>9 DEF LookRefused
  <2> QED BY <2>1, <2>2
<1>10. ASSUME NEW f \in Flights, Clear(f) PROVE OwnToken'
  <2>1. strange' = strange
    <3>1. ASSUME NEW answer \in {"null", "error", "rejected"}, Land(f, answer)
          PROVE  strange' = strange
      BY <3>1, SettleStrange DEF Land
    <3> QED BY Zenon, <1>10, <3>1 DEF Clear, Touched
  <2>2. raced => raced'
    BY <1>10 DEF Clear, Touched
  <2> QED BY <2>1, <2>2
<1>11. ASSUME NEW f \in Flights, TimeIsUp(f) PROVE OwnToken'
  <2>1. strange' = strange /\ raced' = raced
    BY <1>11, SettleStrange DEF TimeIsUp
  <2> QED BY <2>1
<1>12. ASSUME NEW u \in Users, SignInTokens(u) PROVE OwnToken'
  BY <1>12 DEF SignInTokens, UiKeeps, NoSignIn, ui, ghost
<1>13. CASE Identify
  BY <1>13 DEF Identify, UiKeeps, ui, ghost
<1>14. CASE CommitBlank
  BY <1>14 DEF CommitBlank, UiKeeps, Touched, Poised, ui, ghost
<1>15. CASE CommitPut
  BY <1>15 DEF CommitPut, UiKeeps, Touched, Poised, NoSignIn, ui, ghost
<1>16. CASE SignOut
  BY <1>16 DEF SignOut, UiKeeps, ui, ghost
<1>17. CASE signOutLocally
  BY <1>17 DEF signOutLocally, UiKeeps, Touched, Poised, ui, ghost
<1>18. CASE endProviderSession
  BY <1>18 DEF endProviderSession, UiKeeps, NoSignOut, ui, ghost
<1>19. CASE Revoke
  BY <1>19 DEF Revoke, ui, ghost
<1>20. CASE Restart
  BY <1>20 DEF Restart, NoFlight, NoSignIn, NoSignOut, ui, ghost
<1>21. CASE UNCHANGED vars
  BY <1>21 DEF vars, ui, ghost
<1> QED BY <1>1, <1>2, <1>3, <1>4, <1>5, <1>6, <1>7, <1>8, <1>9, <1>10, <1>11,
       <1>12, <1>13, <1>14, <1>15, <1>16, <1>17, <1>18, <1>19, <1>20, <1>21
       DEF Next, Asking, Working

(* The record, its flights and their sharers, with what they rest on.      *)
HonestInv ==
  /\ SessionInv
  /\ TokensOK
  /\ PoisedOK
  /\ StoredOK
  /\ SharersOK
  /\ OwnToken

(* The initial state satisfies it.                                         *)
LEMMA HonestInit == Init => HonestInv
<1> SUFFICES ASSUME Init PROVE HonestInv
  OBVIOUS
<1>1. SessionInv
  BY SessionInit
<1>2. TokensOK
  BY DEF Init, TokensOK, HandsOK, OneAccount, FreshNext, FreshSignIn, Spends, EndsIn,
         NewToken, NoFlight, NoSignIn
<1>3. PoisedOK /\ StoredOK /\ SharersOK
  BY DEF Init, PoisedOK, StoredOK, SharersOK, NoFlight
<1>4. OwnToken
  BY DEF Init, OwnToken
<1> QED BY <1>1, <1>2, <1>3, <1>4 DEF HonestInv

(* The invariant of the session.                                           *)
THEOREM SessionInvariant == Spec => []SessionInv
<1>1. SessionInv /\ [Next]_vars => SessionInv'
  BY TypesKept, HeldKept, WaitKept, SignOutKept DEF SessionInv
<1> QED BY <1>1, SessionInit, PTL DEF Spec

(* Every variable of the session keeps its type.                           *)
THEOREM SessionTypes == Spec => []TypeOK
<1>1. SessionInv => TypeOK
  BY DEF SessionInv
<1> QED BY <1>1, SessionInvariant, PTL

(* No request waits for a refresh that is not at work (oidcSession.ts,     *)
(* refresh and within).                                                    *)
THEOREM NoRequestHangs == Spec => []NobodyWaitsInVain
<1>1. SessionInv => NobodyWaitsInVain
  BY DEF SessionInv
<1> QED BY <1>1, SessionInvariant, PTL

(* A session that was ended is not brought back by a refresh that was out  *)
(* (the second readStored of refresh).                                     *)
THEOREM SignOutHolds == Spec => []SignedOutStays
<1>1. SessionInv => SignedOutStays
  BY DEF SessionInv
<1> QED BY <1>1, SessionInvariant, PTL

(* What the record and the flights have in hand is always in order.        *)
LEMMA HonestInvariant == Spec => []HonestInv
<1>1. HonestInv /\ [Next]_vars => HonestInv'
  <2> SUFFICES ASSUME HonestInv, [Next]_vars PROVE HonestInv'
    OBVIOUS
  <2>1. SessionInv'
    BY TypesKept, HeldKept, WaitKept, SignOutKept DEF HonestInv, SessionInv
  <2>2. TokensOK'
    BY HandsKept, OneAccountKept, FreshNextKept, FreshSignInKept
       DEF HonestInv, SessionInv, TokensOK
  <2>3. PoisedOK' /\ StoredOK' /\ SharersOK' /\ OwnToken'
    BY PoisedKept, StoredKept, SharersKept, OwnTokenKept DEF HonestInv, SessionInv
  <2> QED BY <2>1, <2>2, <2>3 DEF HonestInv
<1> QED BY <1>1, HonestInit, PTL DEF Spec

(* No failure, timeout or late refusal takes the user's session away or    *)
(* puts another in its place (the two readStored of refresh), but for a    *)
(* write under way or raced.                                               *)
THEOREM SessionStays == Spec => []SessionKept
<1>1. HonestInv => SessionKept
  BY DEF HonestInv, StoredOK, SessionKept, Quiet
<1> QED BY <1>1, HonestInvariant, PTL

(* A caller of getSession gets a token of the account whose record it read *)
(* and no other, whoever the refresh it shares was begun for.              *)
THEOREM TokensAreOwn == Spec => []OwnToken
<1>1. HonestInv => OwnToken
  BY DEF HonestInv
<1> QED BY <1>1, HonestInvariant, PTL

=============================================================================
