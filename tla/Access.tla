------------------------------- MODULE Access -------------------------------
(***************************************************************************)
(* What the scoreboard promises about sessions, without workers, database  *)
(* connections or lost answers: a browser carries the session of a team,   *)
(* and addresses are recorded for a team, only after that browser gave     *)
(* that team's password, and after the team was confirmed.                 *)
(***************************************************************************)
CONSTANTS Browsers, Teams, Addresses, None

VARIABLES
    confirmed,  \* teams that followed the link of their letter
    earned,     \* <<browser, team>>: the browser gave the team's password
    cookie,     \* the team whose session a browser carries, or None
    ipteams     \* <<team, address>>: the log of addresses

access == <<confirmed, earned, cookie, ipteams>>

Init ==
    /\ confirmed \in SUBSET Teams
    /\ earned = {} /\ ipteams = {}
    /\ cookie = [b \in Browsers |-> None]

Confirm(t) ==
    /\ confirmed' = confirmed \cup {t}
    /\ UNCHANGED <<earned, cookie, ipteams>>

Earn(b, t) ==
    /\ t \in confirmed
    /\ earned' = earned \cup {<<b, t>>}
    /\ UNCHANGED <<confirmed, cookie, ipteams>>

Enter(b, t) ==
    /\ <<b, t>> \in earned
    /\ cookie' = [cookie EXCEPT ![b] = t]
    /\ UNCHANGED <<confirmed, earned, ipteams>>

Leave(b) ==
    /\ cookie' = [cookie EXCEPT ![b] = None]
    /\ UNCHANGED <<confirmed, earned, ipteams>>

Record(b, t, ip) ==
    /\ <<b, t>> \in earned
    /\ ipteams' = ipteams \cup {<<t, ip>>}
    /\ UNCHANGED <<confirmed, earned, cookie>>

Next ==
    \/ \E t \in Teams : Confirm(t)
    \/ \E b \in Browsers : Leave(b)
    \/ \E b \in Browsers, t \in Teams : Earn(b, t) \/ Enter(b, t)
    \/ \E b \in Browsers, t \in Teams, ip \in Addresses : Record(b, t, ip)

Spec == Init /\ [][Next]_access
=============================================================================
