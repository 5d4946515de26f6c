------------------------------ MODULE MCTopoJobs ------------------------------
(***************************************************************************)
(* The instance of TopoJobs the runs check.  Requests, reapers and tasks   *)
(* are interchangeable.                                                    *)
(***************************************************************************)
EXTENDS TopoJobs, TLC

CONSTANTS h1, h2, d1, d2, j1, r1, r2, s1

TwoStarts == {h1, h2}
TwoDeletes == {d1, d2}
OneJoin == {j1}
TwoReapers == {r1, r2}
OneSweep == {s1}

Symmetry == Permutations(TwoStarts) \union Permutations(TwoDeletes)
              \union Permutations(TwoReapers)

=============================================================================
