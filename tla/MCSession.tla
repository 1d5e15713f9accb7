----------------------------- MODULE MCSession -----------------------------
(***************************************************************************)
(* Session on a small instance, with a bounded number of requests and of   *)
(* faults and changes from outside.                                        *)
(***************************************************************************)
EXTENDS Session, TLC

CONSTANTS
    MaxRequests,    \* requests in a behaviour (bound)
    MaxFaults,      \* faults in a behaviour (bound)
    MaxSolves       \* solves of a list (bound)

MCLists == UNION {[1 .. n -> BOOLEAN] : n \in 0 .. MaxSolves}

Symmetry ==
    Permutations(Workers) \cup Permutations(Browsers) \cup Permutations(Teams)
        \cup Permutations(Addresses) \cup Permutations(Passwords)

VARIABLES requests, faults

MCInit == Init /\ requests = 0 /\ faults = 0

MCNext ==
    \/ Progress /\ UNCHANGED <<requests, faults>>
    \/ Requested /\ requests < MaxRequests /\ requests' = requests + 1 /\ UNCHANGED faults
    \/ Fault /\ faults < MaxFaults /\ faults' = faults + 1 /\ UNCHANGED requests

MCSpec == MCInit /\ [][MCNext]_<<sessionVars, requests, faults>>
=============================================================================
