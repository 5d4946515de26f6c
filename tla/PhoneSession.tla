----------------------------- MODULE PhoneSession -----------------------------
(***************************************************************************)
(* The sign-in session of the phone (mobile/src/auth/oidcSession.ts): the  *)
(* record in SecureStore, the requests that ask for a token, the one       *)
(* refresh they share, and the sign-ins and sign-outs (useAuth.ts,         *)
(* finishSignIn.ts) that replace and clear the record while a refresh is   *)
(* out.  JavaScript runs one step at a time; every await is a place where  *)
(* another step may come in, and the app may be killed at any of them.     *)
(*                                                                         *)
(* A record is its account and its refresh token; whether the ID token is  *)
(* fresh is a reading of the phone's clock, so either.  A write takes the  *)
(* old value away and then puts the new one (chunkedKeyValueStorage.ts).   *)
(* A read and the step it decides are one: only a write that follows a     *)
(* look comes later.  SecureStore fails here on reads alone.  The tokens   *)
(* of a sign-in are good when they come; a sign-out's wipe of the data is  *)
(* not modelled.                                                           *)
(***************************************************************************)
EXTENDS Naturals, FiniteSets

CONSTANTS
  Users,    \* accounts that sign in on this phone
  Tokens,   \* refresh tokens; one that is in nobody's hands may be minted again
  Callers,  \* what asks for a token: the requests, and
  Mount,    \* the restore of the session when the app starts
  Flights,  \* refreshes whose work may be under way at once
  None      \* no token, no session, no refresh

ASSUME SessionAssumption ==
  /\ Mount \in Callers
  /\ None \notin Users \union Tokens \union Flights
  /\ Users # {}
  /\ {"null", "error", "rejected"} \intersect Users = {}

VARIABLES
  store,       \* SESSION_KEY in SecureStore
  good,        \* the refresh tokens the provider honours
  refreshing,  \* the refresh new callers share
  flight,      \* where the work of each refresh stands
  caller,      \* of those waiting for it, the accounts whose session they had read
  signIn,      \* the sign-in under way
  signOut,     \* the sign-out under way
  known,       \* localIdentity.ts holds a record
  screen,      \* "loading", "in" (authenticated) or "out" (chooser, sign-in)
  session,     \* ghost: the session the user has by rights
  ended,       \* ghost: the user has signed out and not in again
  raced,       \* ghost: the store was touched between a flight's look and its write
  strange      \* ghost: a caller got a token of an account it had not asked for

ghost == <<session, ended, raced, strange>>
ui    == <<signIn, signOut, known>>
vars  == <<store, good, refreshing, flight, caller, ui, screen, ghost>>

Sessions == [user : Users, token : Tokens \union {None}]

FlightPlaces == {"idle", "ask", "look", "blank", "put", "lookRefused", "clear", "forget"}
NoFlight == [at |-> "idle", from |-> None, next |-> None]
NoSignIn == [at |-> "idle", to |-> None]
NoSignOut == [at |-> "idle", token |-> None]

Init ==
  /\ store = None
  /\ good = {}
  /\ refreshing = None
  /\ flight = [f \in Flights |-> NoFlight]
  /\ caller = [c \in Callers |-> {}]
  /\ signIn = NoSignIn
  /\ signOut = NoSignOut
  /\ known = FALSE
  /\ screen = "out"
  /\ session = None
  /\ ended = TRUE
  /\ raced = FALSE
  /\ strange = FALSE

-----------------------------------------------------------------------------
(* The provider                                                            *)

TokenOf(record) == IF record = None THEN {} ELSE {record.token}

InHand ==
  TokenOf(store) \union TokenOf(session) \union TokenOf(signIn.to) \union {signOut.token}
    \union UNION {TokenOf(flight[f].from) \union {flight[f].next} : f \in Flights}

Mintable == Tokens \ (good \union InHand)

(* A token expires, is revoked, or its account is disabled                 *)
Revoke ==
  /\ \E t \in good : good' = good \ {t}
  /\ UNCHANGED <<store, refreshing, flight, caller, ui, screen, ghost>>

-----------------------------------------------------------------------------
(* Answering callers                                                       *)

Waiting == {c \in Callers : caller[c] # {}}

(* What an answer does to the screen: the restore settles it, a request    *)
(* that finds the session gone leaves it for sign-in (the refresh on       *)
(* foreground does so only when it was rejected).                          *)
ScreensAfter(answer, callers) ==
  IF screen = "loading" /\ Mount \in callers
  THEN {CASE answer \in Users -> "in"
          [] answer = "error" -> IF known THEN "in" ELSE "out"
          [] OTHER -> "out"}
  ELSE IF screen = "in" /\ callers # {}
  THEN CASE answer = "rejected" -> {"out"}
         [] answer = "null" -> {"in", "out"}
         [] OTHER -> {screen}
  ELSE {screen}

Settle(answer) ==
  /\ screen' \in ScreensAfter(answer, Waiting)
  /\ strange' = (strange \/ (answer \in Users /\ \E c \in Waiting : caller[c] \ {answer} # {}))
  /\ caller' = [c \in Callers |-> {}]

(* `done`: the slot is free for a new refresh                              *)
StillTaken == refreshing  \* mutant: a refresh that failed is never replaced

Freed == None

(* The flight's promise settles, if its time was not up before             *)
Land(f, answer) ==
  /\ flight' = [flight EXCEPT ![f] = NoFlight]
  /\ IF refreshing = f
     THEN Settle(answer) /\ refreshing' = Freed
     ELSE UNCHANGED <<caller, screen, strange, refreshing>>

-----------------------------------------------------------------------------
(* getSession                                                              *)

MayAsk(c) ==
  IF c = Mount THEN screen = "loading" /\ caller[c] = {} ELSE screen = "in"

(* The record as it is, or none, or SecureStore throws                     *)
GetStored(c) ==
  /\ MayAsk(c)
  /\ \E answer \in {IF store = None THEN "null" ELSE store.user, "error"} :
       screen' \in ScreensAfter(answer, {c})
  /\ UNCHANGED <<store, good, refreshing, flight, caller, ui, ghost>>

(* refresh: the one under way, whoever it is for, or a new one; without a  *)
(* refresh token all it does is to clear the record.                       *)
GetRefreshed(c) ==
  /\ MayAsk(c)
  /\ store # None
  /\ caller' = [caller EXCEPT ![c] = @ \union {store.user}]
  /\ \/ refreshing # None /\ UNCHANGED <<refreshing, flight>>
     \/ /\ refreshing = None
        /\ \E f \in Flights :
             /\ flight[f].at = "idle"
             /\ refreshing' = f
             /\ flight' = [flight EXCEPT ![f] =
                  [at |-> IF store.token = None THEN "forget" ELSE "ask",
                   from |-> store, next |-> None]]
  /\ UNCHANGED <<store, good, ui, screen, ghost>>

-----------------------------------------------------------------------------
(* The refresh                                                             *)

Go(f, from, to) == flight[f].at = from /\ flight' = [flight EXCEPT ![f].at = to]

(* A flight past its look at the store, with its write still to land       *)
Poised(f) == flight[f].at \in {"blank", "put", "clear", "forget"}
Touched(others) == raced' = (raced \/ \E f \in others : Poised(f))

FlightKeeps == UNCHANGED <<caller, refreshing, screen, ui, ended, strange>>

(* The provider answers with tokens, perhaps a new refresh token in place  *)
(* of this one; refuses a token that is no longer good; or fails, whether  *)
(* or not it had replaced the token.                                       *)
Granted(f) ==
  /\ flight[f].at = "ask"
  /\ flight[f].from.token \in good
  /\ \/ flight' = [flight EXCEPT ![f].at = "look", ![f].next = flight[f].from.token]
          /\ UNCHANGED good
     \/ \E t \in Mintable :
          /\ good' = (good \ {flight[f].from.token}) \union {t}
          /\ flight' = [flight EXCEPT ![f].at = "look", ![f].next = t]
  /\ FlightKeeps /\ UNCHANGED <<store, session, raced>>

Refused(f) ==
  /\ Go(f, "ask", "lookRefused")
  /\ flight[f].from.token \notin good
  /\ session' = IF session # None /\ session.token = flight[f].from.token THEN None ELSE session
  /\ FlightKeeps /\ UNCHANGED <<store, good, raced>>

Failed(f) ==
  /\ flight[f].at = "ask"
  /\ good' \in {good, good \ {flight[f].from.token}}
  /\ Land(f, "error")
  /\ UNCHANGED <<store, ui, session, ended, raced>>

(* readStored after the answer: is it still this flight's session?         *)
Same(f) == store # None /\ store.token = flight[f].from.token

LookBlindly(f) ==  \* mutant: writes whatever was signed out or in meanwhile
  /\ Go(f, "look", "blank")
  /\ UNCHANGED <<caller, refreshing, screen, strange, store, good, ui, session, ended, raced>>

LookAnswersAnyway(f) ==  \* mutant: does not write, but hands the tokens out
  /\ flight[f].at = "look"
  /\ \/ Same(f) /\ Go(f, "look", "blank")
                /\ UNCHANGED <<caller, refreshing, screen, strange>>
     \/ ~Same(f) /\ Land(f, flight[f].from.user)
     \/ Land(f, "error")
  /\ UNCHANGED <<store, good, ui, session, ended, raced>>

Look(f) ==
  /\ flight[f].at = "look"
  /\ \/ Same(f) /\ Go(f, "look", "blank")
                /\ UNCHANGED <<caller, refreshing, screen, strange>>
     \/ ~Same(f) /\ Land(f, "null")
     \/ Land(f, "error")
  /\ UNCHANGED <<store, good, ui, session, ended, raced>>

(* writeStored                                                             *)
Blank(f) ==
  /\ Go(f, "blank", "put")
  /\ store' = None
  /\ Touched(Flights \ {f})
  /\ FlightKeeps /\ UNCHANGED <<good, session>>

PutToken(f) ==  \* mutant: stores the new token without the rest of the record
  /\ flight[f].at = "put"
  /\ store' = flight[f].next
  /\ Touched(Flights \ {f})
  /\ Land(f, flight[f].from.user)
  /\ UNCHANGED <<good, ui, ended, session>>

Put(f) ==
  LET old == flight[f].from
      new == [user |-> old.user, token |-> flight[f].next] IN
  /\ flight[f].at = "put"
  /\ store' = new
  /\ session' = IF session = old THEN new ELSE session
  /\ Touched(Flights \ {f})
  /\ Land(f, old.user)
  /\ UNCHANGED <<good, ui, ended>>

(* After a refusal: clear the record unless another has replaced it        *)
LookRefusedBlindly(f) ==  \* mutant: clears a session that replaced its own
  /\ Go(f, "lookRefused", "clear")
  /\ UNCHANGED <<caller, refreshing, screen, strange, store, good, ui, session, ended, raced>>

LookRefused(f) ==
  /\ flight[f].at = "lookRefused"
  /\ \/ Same(f) /\ Go(f, "lookRefused", "clear")
                /\ UNCHANGED <<caller, refreshing, screen, strange>>
     \/ ~Same(f) /\ Land(f, "rejected")
     \/ Land(f, "rejected")
  /\ UNCHANGED <<store, good, ui, session, ended, raced>>

Clear(f) ==
  /\ \/ flight[f].at = "clear" /\ Land(f, "rejected")
     \/ flight[f].at = "forget" /\ Land(f, "null")
  /\ store' = None
  /\ session' = IF session = flight[f].from THEN None ELSE session
  /\ Touched(Flights \ {f})
  /\ UNCHANGED <<good, ui, ended>>

(* within: the time of the flight is up.  Its request is aborted, whatever *)
(* the provider made of it; work past the request goes on.                 *)
TimeIsUp(f) ==
  /\ flight[f].at # "idle"
  /\ refreshing = f
  /\ IF flight[f].at = "ask"
     THEN good' \in {good, good \ {flight[f].from.token}}
          /\ flight' = [flight EXCEPT ![f] = NoFlight]
     ELSE UNCHANGED <<good, flight>>
  /\ Settle("error")
  /\ refreshing' = Freed
  /\ UNCHANGED <<store, ui, session, ended, raced>>

-----------------------------------------------------------------------------
(* Signing in and out                                                      *)

UiKeeps == UNCHANGED <<refreshing, flight, caller, strange>>

(* The browser or the password: the provider's tokens, not stored yet      *)
SignInTokens(u) ==
  /\ screen = "out"
  /\ signIn.at = "idle"
  /\ \/ \E t \in Mintable : /\ good' = good \union {t}
                            /\ signIn' = [at |-> "identify", to |-> [user |-> u, token |-> t]]
     \/ /\ signIn' = [at |-> "identify", to |-> [user |-> u, token |-> None]]
        /\ UNCHANGED good
  /\ UiKeeps /\ UNCHANGED <<store, signOut, known, screen, session, ended, raced>>

(* finishSignIn: writeLocalIdentity, then commit                           *)
Identify ==
  /\ signIn.at = "identify"
  /\ signIn' = [signIn EXCEPT !.at = "blank"]
  /\ known' = TRUE
  /\ UiKeeps /\ UNCHANGED <<store, good, signOut, screen, session, ended, raced>>

CommitBlank ==
  /\ signIn.at = "blank"
  /\ signIn' = [signIn EXCEPT !.at = "put"]
  /\ store' = None
  /\ session' = None
  /\ Touched(Flights)
  /\ UiKeeps /\ UNCHANGED <<good, signOut, known, screen, ended>>

CommitPut ==
  /\ signIn.at = "put"
  /\ signIn' = NoSignIn
  /\ store' = signIn.to
  /\ session' = signIn.to
  /\ ended' = FALSE
  /\ screen' = "in"
  /\ Touched(Flights)
  /\ UiKeeps /\ UNCHANGED <<good, signOut, known>>

(* handleSignOut: the identity, the tokens, the chooser, and at best the   *)
(* refresh token revoked.                                                  *)
SignOut ==
  /\ screen = "in"
  /\ signOut.at = "idle"
  /\ signOut' = [signOut EXCEPT !.at = "clear"]
  /\ known' = FALSE
  /\ UiKeeps /\ UNCHANGED <<store, good, signIn, screen, session, ended, raced>>

signOutLocally ==
  /\ signOut.at = "clear"
  /\ signOut' = [at |-> "revoke", token |-> IF store = None THEN None ELSE store.token]
  /\ store' = None
  /\ session' = None
  /\ ended' = TRUE
  /\ screen' = "out"
  /\ Touched(Flights)
  /\ UiKeeps /\ UNCHANGED <<good, signIn, known>>

endProviderSession ==
  /\ signOut.at = "revoke"
  /\ signOut' = NoSignOut
  /\ good' \in {good, good \ {signOut.token}}
  /\ UiKeeps /\ UNCHANGED <<store, signIn, known, screen, session, ended, raced>>

-----------------------------------------------------------------------------
(* The app is killed and started again: what was under way is gone, and so *)
(* is a session whose write was.                                           *)
Restart ==
  /\ refreshing' = None
  /\ flight' = [f \in Flights |-> NoFlight]
  /\ caller' = [c \in Callers |-> {}]
  /\ signIn' = NoSignIn
  /\ signOut' = NoSignOut
  /\ screen' = "loading"
  /\ session' = IF store = None THEN None ELSE session
  /\ UNCHANGED <<store, good, known, ended, raced, strange>>

Asking(c) == GetStored(c) \/ GetRefreshed(c)

Working(f) ==
  \/ Granted(f) \/ Refused(f) \/ Failed(f) \/ Look(f) \/ Blank(f) \/ Put(f)
  \/ LookRefused(f) \/ Clear(f) \/ TimeIsUp(f)

Next ==
  \/ \E c \in Callers : Asking(c)
  \/ \E f \in Flights : Working(f)
  \/ \E u \in Users : SignInTokens(u)
  \/ Identify \/ CommitBlank \/ CommitPut
  \/ SignOut \/ signOutLocally \/ endProviderSession
  \/ Revoke \/ Restart

Spec == Init /\ [][Next]_vars

-----------------------------------------------------------------------------
(* Properties                                                              *)

RecordsOK ==
  /\ store \in Sessions \union {None}
  /\ session \in Sessions \union {None}
  /\ good \subseteq Tokens
  /\ signIn \in [at : {"idle", "identify", "blank", "put"}, to : Sessions \union {None}]
  /\ signOut \in [at : {"idle", "clear", "revoke"}, token : Tokens \union {None}]

FlightsOK ==
  /\ refreshing \in Flights \union {None}
  /\ flight \in [Flights -> [at : FlightPlaces, from : Sessions \union {None},
                             next : Tokens \union {None}]]

AnswersOK ==
  /\ caller \in [Callers -> SUBSET Users]
  /\ screen \in {"loading", "in", "out"}

SwitchesOK == known \in BOOLEAN /\ ended \in BOOLEAN /\ raced \in BOOLEAN /\ strange \in BOOLEAN

TypeOK == RecordsOK /\ FlightsOK /\ AnswersOK /\ SwitchesOK

(* A session the user has by rights is in the store: no failure, no        *)
(* timeout and no late refusal of an older session takes it away or puts   *)
(* another in its place, unless its write is under way or was raced.       *)
Quiet == signIn.at # "put" /\ \A f \in Flights : flight[f].at # "put"

SessionKept ==
  session # None /\ Quiet /\ ~raced => store # None /\ store.user = session.user

(* After a sign-out the store stays empty until the next sign-in: a        *)
(* refresh that was out does not bring the session back.                   *)
SignedOutStays == ended /\ ~raced => store = None

(* A token a caller gets is for the account whose session it read, though  *)
(* the refresh it shared may have been begun for another.                  *)
OwnToken == strange => raced

(* Nobody waits in vain: who waits, waits for the refresh in the slot, and *)
(* the slot holds none but a refresh still at work, whose timer will free  *)
(* it, although work whose time was up may go on beside it.                *)
NobodyWaitsInVain ==
  /\ Waiting # {} => refreshing # None
  /\ refreshing # None => flight[refreshing].at # "idle"

=============================================================================
