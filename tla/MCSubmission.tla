--------------------------- MODULE MCSubmission ---------------------------
(***************************************************************************)
(* Submission on small instances.  c1 is open from the start and unlocks   *)
(* c2; c2 names c1 as its successor, which is open already.  The number of *)
(* faults in a behaviour is bounded by MaxFaults; a lost connection counts *)
(* as one except in the runs for liveness.                                 *)
(***************************************************************************)
EXTENDS Submission, TLC

CONSTANTS
    MaxFaults,          \* faults in a behaviour (bound)
    c1, c2, f1, f2, junk

MCNextOpen == [c \in Challenges |-> IF c = c1 THEN {c2} ELSE {c1}]
MCSolutionOf ==
    [f \in Flags |-> CASE f = f1 -> c1 [] f = f2 -> c2 [] OTHER -> None]

Symmetry == Permutations(Threads) \cup Permutations(Sessions) \cup Permutations(Teams)

VARIABLE faults

MCInit == Init /\ faults = 0

MCNext ==
    \/ Progress /\ UNCHANGED faults
    \/ Fault /\ faults < MaxFaults /\ faults' = faults + 1

MCSpec == MCInit /\ [][MCNext]_<<vars, faults>>

MCLiveNext ==
    \/ MCNext
    \/ \E t \in Threads : LoseConnection(t) /\ UNCHANGED faults

MCLiveSpec == MCInit /\ [][MCLiveNext]_<<vars, faults>> /\ Fairness
=============================================================================
