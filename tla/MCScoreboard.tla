--------------------------- MODULE MCScoreboard ---------------------------
(***************************************************************************)
(* Scoreboard on small instances: c1 is open and unlocks c2.               *)
(***************************************************************************)
EXTENDS Scoreboard, TLC

CONSTANTS
    MaxFaults,          \* faults of the saving workers in a behaviour (bound)
    c1, c2, f1, f2

MCNextOpen == [c \in Challenges |-> IF c = c1 THEN {c2} \cap Challenges ELSE {}]
MCSolutionOf == [f \in Flags |-> IF f = f1 THEN c1 ELSE c2]

VARIABLE faults

MCInit == SbInit /\ faults = 0

MCNext ==
    \/ SbProgress /\ UNCHANGED faults
    \/ SbFault /\ faults < MaxFaults /\ faults' = faults + 1

MCSpec == MCInit /\ [][MCNext]_<<sbVars, faults>>
MCLiveSpec == MCSpec /\ SbFairness
=============================================================================
