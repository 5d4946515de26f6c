--------------------------- MODULE TopoJobLifecycle ---------------------------
(***************************************************************************)
(* What the owner of a LiDAR map may rely on, whatever the API, its        *)
(* reaper and the compute task do to one another: a job runs at most once  *)
(* and settles for good, its outputs are charged to the account in the     *)
(* step that completes it and given back in the step that removes it, and  *)
(* the owner hears of the outcome at most once and as it is.               *)
(***************************************************************************)
EXTENDS Naturals, Sequences

CONSTANTS
  Bytes,    \* what the outputs of the job take
  Elsewhere \* what else is charged to the account

VARIABLES
  status, \* the row's status; "none" before it and "gone" after it
  used,   \* bytes charged to the account
  told    \* the outcomes the owner was notified of, in order

vars == <<status, used, told>>

Terminal == {"complete", "failed"}
InFlight == {"pending", "processing"}
Existing == {"uploading"} \union InFlight \union Terminal

Init == status = "none" /\ used = Elsewhere /\ told = <<>>

Move(from, to) == status \in from /\ status' = to /\ UNCHANGED told

Submit == Move({"none"}, "uploading") /\ UNCHANGED used
Start  == Move({"uploading"}, "pending") /\ UNCHANGED used
Claim  == Move({"pending"}, "processing") /\ UNCHANGED used
Finish == Move({"processing"}, "complete") /\ used' = used + Bytes
Fail   == Move(InFlight, "failed") /\ UNCHANGED used
Remove == Move(Existing, "gone") /\ used' = Elsewhere

Tell(outcome) ==
  /\ told = <<>>
  /\ status \in {outcome, "gone"}
  /\ told' = <<outcome>>
  /\ UNCHANGED <<status, used>>

Next == Submit \/ Start \/ Claim \/ Finish \/ Fail \/ Remove
        \/ \E outcome \in Terminal : Tell(outcome)

Spec == Init /\ [][Next]_vars

=============================================================================
