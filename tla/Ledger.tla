------------------------------- MODULE Ledger -------------------------------
(***************************************************************************)
(* What the scoreboard promises the teams, without threads, caches,        *)
(* sessions or statements: a challenge can be scored once it has been      *)
(* opened; a challenge is opened only by a solve of one that precedes it,  *)
(* with everything that solve unlocks; the published scores are those of   *)
(* the stored solves; a team is told it earned points only for a solve     *)
(* that the published scores contain.  Nothing of it is ever taken back.   *)
(***************************************************************************)
CONSTANTS Teams, Challenges, NextOpen, InitOpen

VARIABLES
    opened,     \* challenges opened so far
    scored,     \* pairs of a team and a challenge it solved
    published,  \* the solves the scoreboard shows
    granted     \* the solves a team was told it earned points for

ledger == <<opened, scored, published, granted>>

Init ==
    /\ opened = InitOpen
    /\ scored = {} /\ published = {} /\ granted = {}

Solve(tm, c) ==
    /\ c \in opened /\ <<tm, c>> \notin scored
    /\ scored' = scored \cup {<<tm, c>>}
    /\ UNCHANGED <<opened, published, granted>>

Unlock(c) ==
    /\ \E tm \in Teams : <<tm, c>> \in scored
    /\ opened' = opened \cup NextOpen[c]
    /\ UNCHANGED <<scored, published, granted>>

Publish ==
    /\ published' = scored
    /\ UNCHANGED <<opened, scored, granted>>

Grant(tm, c) ==
    /\ <<tm, c>> \in published
    /\ granted' = granted \cup {<<tm, c>>}
    /\ UNCHANGED <<opened, scored, published>>

Next ==
    \/ \E tm \in Teams, c \in Challenges : Solve(tm, c) \/ Grant(tm, c)
    \/ \E c \in Challenges : Unlock(c)
    \/ Publish

Spec == Init /\ [][Next]_ledger
=============================================================================
