--------------------------- MODULE MCRegistration ---------------------------
(***************************************************************************)
(* Registration on small instances, with a bounded number of faults.       *)
(***************************************************************************)
EXTENDS Registration, TLC

CONSTANTS MaxFaults     \* faults in a behaviour (bound)

Symmetry ==
    Permutations(Workers) \cup Permutations(Names) \cup Permutations(Emails)
        \cup Permutations(Codes)

VARIABLE faults

MCInit == Init /\ faults = 0

MCNext ==
    \/ Progress /\ UNCHANGED faults
    \/ Fault /\ faults < MaxFaults /\ faults' = faults + 1

MCSpec == MCInit /\ [][MCNext]_<<vars, faults>>
=============================================================================
