------------------------------ MODULE MCPhoneSync ------------------------------
(***************************************************************************)
(* Small instances of PhoneSync: the sets of rows and the allowances each  *)
(* run gives the environment.                                              *)
(***************************************************************************)
EXTENDS PhoneSync

CONSTANTS p1, p2, t1

NoFaults == [act \in EnvironmentActs |-> 0]

(* a lost answer or a page that cannot be stored, a crash, a refusal, and  *)
(* the reset the screen offers                                             *)
FaultAllowance ==
  [NoFaults EXCEPT !["loss"] = 1, !["crash"] = 1, !["refuse"] = 1, !["reset"] = 1]

(* two writes of the other device, a lost answer, a parked op discarded    *)
OtherDeviceAllowance ==
  [NoFaults EXCEPT !["foreign"] = 2, !["loss"] = 1, !["discard"] = 1]

(* a refusal and a write of the other device, between linked rows          *)
LinkAllowance ==
  [NoFaults EXCEPT !["refuse"] = 1, !["foreign"] = 1]

(* refusals worth a retry, a request that outlives its timeout             *)
RetryAllowance ==
  [NoFaults EXCEPT !["refuse"] = 2, !["late"] = 1]

=============================================================================
